---- MODULE Spec2Model ----
(***************************************************************************)
(* A model of the signal reconciliation engine of vibe:                    *)
(*   - WorktreesState (src/state/worktrees.rs): the live-PR map and the    *)
(*     time-boxed "no PR" cache that bound remote PR lookups;              *)
(*   - ClaudeActivityTracker (src/external/claude_activity.rs): the        *)
(*     activity classification of a session from file-update cadence.      *)
(*   - session/working-directory matching (claude_activity.rs) and the     *)
(*     task status resolver (src/state/tasks.rs): pure functions, applied  *)
(*     to inputs drawn in the initial state.                               *)
(* Each component has its own specification over the shared clock.         *)
(***************************************************************************)
EXTENDS Integers, Sequences, FiniteSets, TLC

VARIABLES
    now,               \* monotonic clock (Instant::now()), in ticks
    worktrees,         \* WorktreesState.worktrees
    selected_index,    \* WorktreesState.selected_index
    error,             \* WorktreesState.error
    branch_prs,        \* WorktreesState.branch_prs
    no_pr_cache,       \* WorktreesState.no_pr_cache
    lastMark,          \* history: instant of the most recent mark_no_pr per branch
                       \*   (kept under SpecWorktreesMarks only)
    wtCall,            \* history: the last WorktreesState call and what it met
    last_update_times, \* ClaudeActivityTracker.last_update_times
    result,            \* the value the last tracker call returned
    trCall,            \* history: the last tracker call and the path it took
    updRun,            \* history: the current run of record_update calls
    inSession,         \* argument session_name of session_matches_working_dir
    inDir,             \* argument working_dir of session_matches_working_dir
    outMatch,          \* what session_matches_working_dir returned, "-" before
    inTask,            \* the Task a status is resolved for (self)
    inBranchPr,        \* argument branch_pr: Option<&BranchPrInfo>
    inHasWorktree,     \* argument has_worktree
    inLinearStatus,    \* argument linear_status: Option<&LinearIssueStatus>
    outStatus,         \* the TaskStatus the last resolver call returned
    rsCall,            \* history: the resolver method last called
    inTitle,           \* argument title of task_title_to_branch
    inLinearId,        \* argument linear_id: Option<&str>
    outBranch,         \* what task_title_to_branch returned, None before
    tasks,             \* TasksState.tasks
    search_filter,     \* TasksState.search_filter
    inBranchPrs,       \* argument branch_prs of tasks_in_column_with_prs
    inWorktrees,       \* argument worktrees of tasks_in_column_with_prs
    inLinearStatuses,  \* argument linear_statuses of tasks_in_column_with_prs
    outTasks,          \* the tasks the last tasks_in_column_with_prs call returned
    colCall,           \* history: that call's status argument and iteration order
    sessions,          \* SessionsState.sessions
    loading,           \* SessionsState.loading
    sessions_error,    \* SessionsState.error
    ssCall,            \* history: the last call on the session list and its argument
    applied,           \* history: the lookup results applied since a state, one per branch
    queue,             \* the channel from the file watcher to the control thread
    callback,          \* the event kind and the paths the watcher callback has yet to visit
    lastEvent,         \* history: the last event kind; was a path of it dropped
    gassed,            \* cmd_watch: the identifiers already handled
    new_issues,        \* cmd_watch: the issues of the current response still to handle
    polls,             \* cmd_watch: the number of fetches made
    known,             \* history: the identifiers in local storage at start-up
    launched,          \* history: the number of sessions launched per identifier
    chkSource,         \* where the PR info comes from: gh pr view or the batch query
    inContexts,        \* statusCheckRollup of a pull request in the batch response
    inRollup,          \* BranchPrInfo.status_check_rollup, None until built
    rollupBuilt,       \* the BranchPrInfo has been built
    outChecks,         \* what checks_status returned, empty before the call
    prHistory,         \* history: per branch, whether set_branch_pr or clear_branch_pr came last
    departed,          \* history: what a session had when set_sessions dropped its name, and whether it is back
    watchLog           \* history: how the last fetch ended, what it listed, and the issues whose import only failed

wtVars == <<worktrees, selected_index, error, branch_prs, no_pr_cache, lastMark, wtCall>>
trVars == <<last_update_times, result, trCall, updRun>>
smVars == <<inSession, inDir, outMatch>>
rsVars == <<inTask, inBranchPr, inHasWorktree, inLinearStatus, outStatus, rsCall>>
slVars == <<inTitle, inLinearId, outBranch>>
colVars == <<tasks, search_filter, inBranchPrs, inWorktrees, inLinearStatuses, outTasks, colCall>>
ssVars == <<sessions, loading, sessions_error, ssCall>>
lkVars == <<applied>>
awVars == <<queue, callback, lastEvent>>
cwVars == <<gassed, new_issues, polls, known, launched>>
ckVars == <<chkSource, inContexts, inRollup, rollupBuilt, outChecks>>
whVars == <<prHistory>>
shVars == <<departed>>
wlVars == <<watchLog>>
\* the variables of the components that are pure functions or run on their own
pureVars == <<smVars, rsVars, slVars, colVars, ssVars, lkVars, awVars, cwVars, ckVars, whVars, shVars, wlVars>>
exceptSmVars == <<rsVars, slVars, colVars, ssVars, lkVars, awVars, cwVars, ckVars, whVars, shVars, wlVars>>
exceptRsVars == <<smVars, slVars, colVars, ssVars, lkVars, awVars, cwVars, ckVars, whVars, shVars, wlVars>>
exceptSlVars == <<smVars, rsVars, colVars, ssVars, lkVars, awVars, cwVars, ckVars, whVars, shVars, wlVars>>
exceptColVars == <<smVars, rsVars, slVars, ssVars, lkVars, awVars, cwVars, ckVars, whVars, shVars, wlVars>>
exceptSsVars == <<smVars, rsVars, slVars, colVars, lkVars, awVars, cwVars, ckVars, whVars, shVars, wlVars>>
exceptLkVars == <<smVars, rsVars, slVars, colVars, ssVars, awVars, cwVars, ckVars, whVars, shVars, wlVars>>
exceptAwVars == <<smVars, rsVars, slVars, colVars, ssVars, lkVars, cwVars, ckVars, whVars, shVars, wlVars>>
exceptCwVars == <<smVars, rsVars, slVars, colVars, ssVars, lkVars, awVars, ckVars, whVars, shVars, wlVars>>
exceptCkVars == <<smVars, rsVars, slVars, colVars, ssVars, lkVars, awVars, cwVars, whVars, shVars, wlVars>>
exceptWhVars == <<smVars, rsVars, slVars, colVars, ssVars, lkVars, awVars, cwVars, ckVars, shVars, wlVars>>
exceptShVars == <<smVars, rsVars, slVars, colVars, ssVars, lkVars, awVars, cwVars, ckVars, whVars, wlVars>>
exceptWlVars == <<smVars, rsVars, slVars, colVars, ssVars, lkVars, awVars, cwVars, ckVars, whVars, shVars>>
vars == <<now, wtVars, trVars, pureVars>>

(***************************************************************************)
(* Time.  An Instant is a tick count; a Duration converts to whole seconds *)
(* by truncation.  The clock is observed at the instants around the        *)
(* program's thresholds, on a second boundary and just before the next.    *)
(***************************************************************************)
NO_PR_CACHE_TTL_SECS == 120
THINKING_THRESHOLD_SECS == 5
WAITING_THRESHOLD_SECS == 120

TicksPerSec == 2

as_secs(d) == d \div TicksPerSec

elapsed(instant) == IF now >= instant THEN now - instant ELSE 0

\* instant 0 and the instants just before and exactly at each threshold after it
SampleSecs == {THINKING_THRESHOLD_SECS, NO_PR_CACHE_TTL_SECS, WAITING_THRESHOLD_SECS}

TimePoints ==
    {0} \cup { s * TicksPerSec - f : s \in SampleSecs, f \in {0, 1} }

Advance == \E t \in TimePoints : t > now /\ now' = t

(***************************************************************************)
(* HashMap helpers.                                                        *)
(***************************************************************************)
Insert(m, k, v) == [x \in (DOMAIN m) \cup {k} |-> IF x = k THEN v ELSE m[x]]
Remove(m, k) == [x \in (DOMAIN m) \ {k} |-> m[x]]
EmptyMap == [x \in {} |-> 0]

(***************************************************************************)
(* WorktreesState                                                          *)
(***************************************************************************)
Branches == {"a", "b"}
PrInfos == {"OPEN", "MERGED"}
MaxWorktrees == 2

WorktreeInfo == [branch : Branches, is_current : BOOLEAN]

\* the lists a collaborator supplies: at most one worktree is the current one
WorktreeLists ==
    { l \in UNION { [1..n -> WorktreeInfo] : n \in 0..MaxWorktrees } :
        Cardinality({i \in DOMAIN l : l[i].is_current}) <= 1 }

NoCall == [op |-> "other", branch |-> "", cached |-> FALSE]

new ==
    /\ worktrees = <<>>
    /\ selected_index = 0
    /\ error = "None"
    /\ branch_prs = EmptyMap
    /\ no_pr_cache = EmptyMap

set_branch_pr_keeps_cache(branch, pr_info) ==
    /\ no_pr_cache' = no_pr_cache
    /\ branch_prs' = Insert(branch_prs, branch, pr_info)

\* a set_branch_pr that empties the no-PR cache
set_branch_pr_clears_cache(branch, pr_info) ==
    /\ no_pr_cache' = EmptyMap
    /\ branch_prs' = Insert(branch_prs, branch, pr_info)

set_branch_pr(branch, pr_info) ==
    /\ no_pr_cache' = Remove(no_pr_cache, branch)
    /\ branch_prs' = Insert(branch_prs, branch, pr_info)

clear_branch_pr(branch) ==
    /\ branch_prs' = Remove(branch_prs, branch)
    /\ UNCHANGED no_pr_cache

mark_no_pr(branch) ==
    /\ no_pr_cache' = Insert(no_pr_cache, branch, now)
    /\ UNCHANGED branch_prs

is_cached_no_pr_le(branch) ==
    IF branch \in DOMAIN no_pr_cache
    THEN as_secs(elapsed(no_pr_cache[branch])) <= NO_PR_CACHE_TTL_SECS
    ELSE FALSE

is_cached_no_pr(branch) ==
    IF branch \in DOMAIN no_pr_cache
    THEN as_secs(elapsed(no_pr_cache[branch])) < NO_PR_CACHE_TTL_SECS
    ELSE FALSE

NeedsLookup(wt) == ~(wt.branch \in DOMAIN branch_prs) /\ ~is_cached_no_pr(wt.branch)

branches_needing_pr_lookup_no_pr_check ==
    LET kept == SelectSeq(worktrees, LAMBDA wt : ~is_cached_no_pr(wt.branch))
    IN  [i \in DOMAIN kept |-> kept[i].branch]

branches_needing_pr_lookup ==
    LET kept == SelectSeq(worktrees, NeedsLookup)
    IN  [i \in DOMAIN kept |-> kept[i].branch]

\* a retain test that keeps an entry of exactly the TTL
StillValid_inclusive(checked_at) == as_secs(elapsed(checked_at)) <= NO_PR_CACHE_TTL_SECS

StillValid(checked_at) == as_secs(elapsed(checked_at)) < NO_PR_CACHE_TTL_SECS

cleanup_no_pr_cache ==
    /\ no_pr_cache' = [b \in {k \in DOMAIN no_pr_cache : StillValid(no_pr_cache[k])}
                          |-> no_pr_cache[b]]
    /\ UNCHANGED branch_prs

clear_no_pr_cache ==
    /\ no_pr_cache' = EmptyMap
    /\ UNCHANGED branch_prs

Position(l) ==
    LET hits == {i \in DOMAIN l : l[i].is_current}
    IN  IF hits = {} THEN 0 ELSE CHOOSE i \in hits : \A j \in hits : i <= j

saturating_sub(a, b) == IF a >= b THEN a - b ELSE 0

\* a set_worktrees that drops the PR entries of the branches no longer listed
set_worktrees_prunes_prs(list) ==
    /\ worktrees' = list
    /\ error' = "None"
    /\ selected_index' =
         IF Position(list) # 0 THEN Position(list) - 1
         ELSE IF selected_index >= Len(list) THEN saturating_sub(Len(list), 1)
         ELSE selected_index
    /\ branch_prs' = [b \in {k \in DOMAIN branch_prs : \E i \in DOMAIN list : list[i].branch = k}
                         |-> branch_prs[b]]
    /\ UNCHANGED no_pr_cache

\* selected_index is a 0-based usize; Position is 1-based, 0 when nothing
\* matches; the two maps are not written
set_worktrees(list) ==
    /\ worktrees' = list
    /\ error' = "None"
    /\ selected_index' =
         IF Position(list) # 0 THEN Position(list) - 1
         ELSE IF selected_index >= Len(list) THEN saturating_sub(Len(list), 1)
         ELSE selected_index
    /\ UNCHANGED <<branch_prs, no_pr_cache>>

(***************************************************************************)
(* The calls a caller can make on WorktreesState, in any order.            *)
(***************************************************************************)
Called(op, branch) ==
    wtCall' = [op |-> op, branch |-> branch, cached |-> branch \in DOMAIN no_pr_cache]

\* history is kept only of the calls whose effect is examined afterwards
OtherCall == wtCall' = NoCall

CallSetBranchPr ==
    \E b \in Branches, i \in PrInfos :
        /\ set_branch_pr(b, i)
        /\ Called("set_branch_pr", b)
        /\ UNCHANGED <<now, trVars, pureVars, worktrees, selected_index, error, lastMark>>

CallClearBranchPr ==
    \E b \in Branches :
        /\ clear_branch_pr(b)
        /\ OtherCall
        /\ UNCHANGED <<now, trVars, pureVars, worktrees, selected_index, error, lastMark>>

CallMarkNoPr ==
    \E b \in Branches :
        /\ mark_no_pr(b)
        /\ OtherCall
        /\ UNCHANGED <<now, trVars, pureVars, worktrees, selected_index, error, lastMark>>

\* the same call, with the instant of the mark kept as history
CallMarkNoPrTracked ==
    \E b \in Branches :
        /\ mark_no_pr(b)
        /\ lastMark' = Insert(lastMark, b, now)
        /\ OtherCall
        /\ UNCHANGED <<now, trVars, pureVars, worktrees, selected_index, error>>

CallCleanupNoPrCache ==
    /\ cleanup_no_pr_cache
    /\ OtherCall
    /\ UNCHANGED <<now, trVars, pureVars, worktrees, selected_index, error, lastMark>>

\* the same call, with history of whether it met an entry to remove
CallCleanupNoPrCacheTracked ==
    /\ cleanup_no_pr_cache
    /\ wtCall' = [op |-> "cleanup_no_pr_cache", branch |-> "",
                  cached |-> \E b \in DOMAIN no_pr_cache : ~StillValid(no_pr_cache[b])]
    /\ UNCHANGED <<now, trVars, pureVars, worktrees, selected_index, error, lastMark>>

CallClearNoPrCache ==
    /\ clear_no_pr_cache
    /\ OtherCall
    /\ UNCHANGED <<now, trVars, pureVars, worktrees, selected_index, error, lastMark>>

CallSetWorktrees ==
    \E l \in WorktreeLists :
        /\ set_worktrees(l)
        /\ OtherCall
        /\ UNCHANGED <<now, trVars, pureVars, lastMark>>

\* the same call, with history of the branches whose worktree it dropped
CallSetWorktreesTracked ==
    \E l \in WorktreeLists :
        /\ set_worktrees(l)
        /\ wtCall' = [op |-> "set_worktrees", branch |-> "", cached |-> FALSE,
                      gone |-> { worktrees[i].branch : i \in DOMAIN worktrees }
                                   \ { l[i].branch : i \in DOMAIN l }]
        /\ UNCHANGED <<now, trVars, pureVars, lastMark>>

InitWorktrees ==
    /\ new
    /\ lastMark = EmptyMap
    /\ wtCall = NoCall

TickWorktrees == Advance /\ UNCHANGED <<wtVars, trVars, pureVars>>

NextWorktrees ==
    \/ TickWorktrees
    \/ CallSetBranchPr
    \/ CallClearBranchPr
    \/ CallMarkNoPr
    \/ CallCleanupNoPrCache
    \/ CallClearNoPrCache
    \/ CallSetWorktrees

NextWorktreesMarks ==
    \/ TickWorktrees
    \/ CallSetBranchPr
    \/ CallClearBranchPr
    \/ CallMarkNoPrTracked
    \/ CallCleanupNoPrCache
    \/ CallClearNoPrCache
    \/ CallSetWorktrees

NextWorktreesCleanup ==
    \/ TickWorktrees
    \/ CallSetBranchPr
    \/ CallClearBranchPr
    \/ CallMarkNoPr
    \/ CallCleanupNoPrCacheTracked
    \/ CallClearNoPrCache
    \/ CallSetWorktrees

(***************************************************************************)
(* PR lookup results applied to WorktreesState as they complete: a result  *)
(* is a PR (set_branch_pr) or none (mark_no_pr).  History keeps the PR map *)
(* and the no-PR keys of a state and the results applied since then, one   *)
(* per branch; a second result for a branch starts the history afresh.     *)
(***************************************************************************)
NoneApplied == applied = [prs0 |-> EmptyMap, keys0 |-> {}, results |-> EmptyMap]

Record(branch, res) ==
    applied' = IF branch \in DOMAIN applied.results
                   THEN [prs0 |-> branch_prs, keys0 |-> DOMAIN no_pr_cache,
                         results |-> Insert(EmptyMap, branch, res)]
                   ELSE [applied EXCEPT !.results = Insert(applied.results, branch, res)]

ApplySetBranchPr ==
    \E b \in Branches, i \in PrInfos :
        /\ set_branch_pr(b, i)
        /\ Called("set_branch_pr", b)
        /\ Record(b, i)
        /\ UNCHANGED <<now, trVars, exceptLkVars, worktrees, selected_index, error, lastMark>>

ApplyMarkNoPr ==
    \E b \in Branches :
        /\ mark_no_pr(b)
        /\ Called("mark_no_pr", b)
        /\ Record(b, "no_pr")
        /\ UNCHANGED <<now, trVars, exceptLkVars, worktrees, selected_index, error, lastMark>>

NextLookups ==
    \/ TickWorktrees
    \/ ApplySetBranchPr
    \/ ApplyMarkNoPr

(***************************************************************************)
(* WorktreesState as the PR poller uses it: the caller asks which branches *)
(* need a lookup, and sets or clears PR entries.  History is kept of the   *)
(* last of set_branch_pr and clear_branch_pr per branch, and of what the   *)
(* last branches_needing_pr_lookup returned and when.                      *)
(***************************************************************************)
NoPrHistory == prHistory = EmptyMap

CallSetBranchPrTracked ==
    \E b \in Branches, i \in PrInfos :
        /\ set_branch_pr(b, i)
        /\ Called("set_branch_pr", b)
        /\ prHistory' = Insert(prHistory, b, "set")
        /\ UNCHANGED <<now, trVars, exceptWhVars, worktrees, selected_index, error, lastMark>>

CallClearBranchPrTracked ==
    \E b \in Branches :
        /\ clear_branch_pr(b)
        /\ OtherCall
        /\ prHistory' = Insert(prHistory, b, "cleared")
        /\ UNCHANGED <<now, trVars, exceptWhVars, worktrees, selected_index, error, lastMark>>

\* a lookup that remembers the branches it returned as looked up
branches_needing_pr_lookup_marks_in_flight ==
    /\ no_pr_cache' = [b \in (DOMAIN no_pr_cache) \cup
                               {branches_needing_pr_lookup[i] :
                                    i \in DOMAIN branches_needing_pr_lookup}
                          |-> IF b \in DOMAIN no_pr_cache /\ is_cached_no_pr(b)
                              THEN no_pr_cache[b] ELSE now]
    /\ UNCHANGED <<worktrees, selected_index, error, branch_prs>>

\* the method takes &self: no field is written
branches_needing_pr_lookup_self ==
    UNCHANGED <<worktrees, selected_index, error, branch_prs, no_pr_cache>>

\* live is the set of no-PR entries the call found unexpired; n counts the
\* calls made in a row, up to two
CallBranchesNeedingPrLookup ==
    /\ branches_needing_pr_lookup_self
    /\ wtCall' = [op |-> "branches_needing_pr_lookup", branch |-> "", cached |-> FALSE,
                  out |-> branches_needing_pr_lookup,
                  live |-> {b \in DOMAIN no_pr_cache : is_cached_no_pr(b)},
                  n |-> IF wtCall.op = "branches_needing_pr_lookup" THEN 2 ELSE 1]
    /\ UNCHANGED <<now, trVars, pureVars, lastMark>>

NextWorktreesSticky ==
    \/ TickWorktrees
    \/ CallSetBranchPrTracked
    \/ CallClearBranchPrTracked
    \/ CallMarkNoPr
    \/ CallCleanupNoPrCache
    \/ CallClearNoPrCache
    \/ CallSetWorktrees

\* the calls made between two refreshes of the board, at one instant
NextWorktreesTasks ==
    \/ CallSetBranchPr
    \/ CallClearBranchPr
    \/ CallMarkNoPr
    \/ CallClearNoPrCache
    \/ CallSetWorktreesTracked

NextWorktreesLookups ==
    \/ TickWorktrees
    \/ CallSetBranchPr
    \/ CallClearBranchPr
    \/ CallMarkNoPr
    \/ CallCleanupNoPrCache
    \/ CallClearNoPrCache
    \/ CallSetWorktrees
    \/ CallBranchesNeedingPrLookup

(***************************************************************************)
(* ClaudeActivityTracker                                                   *)
(* A string is a sequence of characters.                                   *)
(***************************************************************************)
to_lowercase_char(c) ==
    CASE c = "A" -> "a"
      [] c = "B" -> "b"
      [] c = "X" -> "x"
      [] OTHER -> c

to_lowercase(s) == [i \in DOMAIN s |-> to_lowercase_char(s[i])]

\* str::contains: needle occurs in hay as a contiguous run (always, when empty)
contains(hay, needle) ==
    \E i \in 0..(Len(hay) - Len(needle)) : SubSeq(hay, i + 1, i + Len(needle)) = needle

\* working_dir.split('/').next_back(): what follows the last '/', or all of it
last_component(s) ==
    LET slashes == {i \in DOMAIN s : s[i] = "/"}
        from == IF slashes = {} THEN 0 ELSE CHOOSE i \in slashes : \A j \in slashes : j <= i
    IN  SubSeq(s, from + 1, Len(s))

\* the last-segment rule also accepts a segment that occurs in the session name
session_matches_working_dir_segment_in_name(session_name, working_dir) ==
    LET normalized_session == to_lowercase(session_name)
        normalized_dir == to_lowercase(working_dir)
    IN  IF contains(normalized_session, to_lowercase(last_component(working_dir)))
        THEN TRUE
        ELSE contains(normalized_dir, normalized_session)

\* the directory is searched as written, not lower-cased
session_matches_working_dir_dir_as_written(session_name, working_dir) ==
    LET normalized_session == to_lowercase(session_name)
    IN  IF to_lowercase(last_component(working_dir)) = normalized_session THEN TRUE
        ELSE contains(working_dir, normalized_session)

session_matches_working_dir(session_name, working_dir) ==
    LET normalized_session == to_lowercase(session_name)
        normalized_dir == to_lowercase(working_dir)
    IN  IF to_lowercase(last_component(working_dir)) = normalized_session
        THEN TRUE
        ELSE contains(normalized_dir, normalized_session)

\* Dir1 ends in the session name "AB" up to case; Dir2 only contains "x"
Dir1 == <<"/", "w", "/", "a", "b">>
Dir2 == <<"/", "w", "/", "X", "-", "y">>
WorkingDirs == {Dir1, Dir2}
SessionNames == { <<"A", "B">>, <<"x">> }

Percentages == {"None", "Some(10.0)", "Some(75.5)"}

\* timestamps of the status files: the epoch, EpochBase, and one that is still
\* in the future at every clock reading below
EpochBase == 1000
Timestamps == {0, EpochBase, EpochBase + WAITING_THRESHOLD_SECS + 1}

\* SystemTime::now() in ticks since the epoch; negative: a clock set before it
SysTimes ==
    { -1,
      (EpochBase + WAITING_THRESHOLD_SECS) * TicksPerSec - 1,
      (EpochBase + WAITING_THRESHOLD_SECS) * TicksPerSec }

ClaudeStatusFile ==
    [working_dir : WorkingDirs, used_percentage : Percentages, timestamp : Timestamps]

Unknown == [state |-> "Unknown", context_percentage |-> "None"]
NoResult == [state |-> "-", context_percentage |-> "-"]

NoTrCall == [op |-> "", dir |-> <<>>, path |-> "", skipped |-> FALSE]
NoRun == [dir |-> <<>>, n |-> 0]

tracker_new ==
    /\ last_update_times = EmptyMap

record_update_keeps_first(working_dir) ==
    last_update_times' =
        IF working_dir \in DOMAIN last_update_times THEN last_update_times
        ELSE Insert(last_update_times, working_dir, now)

record_update(working_dir) ==
    last_update_times' = Insert(last_update_times, working_dir, now)

\* duration_since(UNIX_EPOCH).map(|d| d.as_secs()).unwrap_or(0)
epoch_secs(systime) == IF systime >= 0 THEN as_secs(systime) ELSE 0

EventState_inclusive(elapsed_secs) ==
    IF elapsed_secs <= THINKING_THRESHOLD_SECS THEN "Thinking"
    ELSE IF elapsed_secs <= WAITING_THRESHOLD_SECS THEN "WaitingForUser"
    ELSE "Idle"

EventState(elapsed_secs) ==
    IF elapsed_secs < THINKING_THRESHOLD_SECS THEN "Thinking"
    ELSE IF elapsed_secs < WAITING_THRESHOLD_SECS THEN "WaitingForUser"
    ELSE "Idle"

FallbackState_inclusive(age_secs) ==
    IF age_secs <= WAITING_THRESHOLD_SECS THEN "WaitingForUser" ELSE "Idle"

FallbackState(age_secs) ==
    IF age_secs < WAITING_THRESHOLD_SECS THEN "WaitingForUser" ELSE "Idle"

\* a stale status file overrides the recorded update
determine_state_stale_file_wins(status, systime) ==
    [ state |->
        IF status.working_dir \in DOMAIN last_update_times
              /\ saturating_sub(epoch_secs(systime), status.timestamp) < WAITING_THRESHOLD_SECS
        THEN EventState(as_secs(elapsed(last_update_times[status.working_dir])))
        ELSE FallbackState(saturating_sub(epoch_secs(systime), status.timestamp)),
      context_percentage |-> status.used_percentage ]

\* the context percentage is dropped for an idle session
determine_state_idle_drops_percentage(status, systime) ==
    LET st == IF status.working_dir \in DOMAIN last_update_times
              THEN EventState(as_secs(elapsed(last_update_times[status.working_dir])))
              ELSE FallbackState(saturating_sub(epoch_secs(systime), status.timestamp))
    IN  [ state |-> st,
          context_percentage |-> IF st = "Idle" THEN "None" ELSE status.used_percentage ]

determine_state(status, systime) ==
    [ state |->
        IF status.working_dir \in DOMAIN last_update_times
        THEN EventState(as_secs(elapsed(last_update_times[status.working_dir])))
        ELSE FallbackState(saturating_sub(epoch_secs(systime), status.timestamp)),
      context_percentage |-> status.used_percentage ]

(***************************************************************************)
(* The state directory as one call finds it: unreadable, or a listing of   *)
(* entries.  An entry may fail to be listed, carry another extension, be   *)
(* unreadable or hold text that does not parse; otherwise it holds a       *)
(* status record.                                                          *)
(***************************************************************************)
MaxFiles == 2

GoodFile(status) ==
    [entry_ok |-> TRUE, ext |-> "json", readable |-> TRUE, parses |-> TRUE, status |-> status]

SomeStatus(d, p, t) == [working_dir |-> d, used_percentage |-> p, timestamp |-> t]

Files ==
    { GoodFile(SomeStatus(Dir1, "Some(75.5)", EpochBase)),
      GoodFile(SomeStatus(Dir2, "None", 0)),
      [GoodFile(SomeStatus(Dir1, "Some(10.0)", EpochBase + WAITING_THRESHOLD_SECS + 1)) EXCEPT !.entry_ok = FALSE],
      [GoodFile(SomeStatus(Dir1, "Some(10.0)", EpochBase + WAITING_THRESHOLD_SECS + 1)) EXCEPT !.ext = "JSON"],
      [GoodFile(SomeStatus(Dir1, "Some(10.0)", EpochBase + WAITING_THRESHOLD_SECS + 1)) EXCEPT !.readable = FALSE],
      [GoodFile(SomeStatus(Dir1, "Some(10.0)", EpochBase + WAITING_THRESHOLD_SECS + 1)) EXCEPT !.parses = FALSE] }

Listings == UNION { [1..n -> Files] : n \in 0..MaxFiles }

StateDirs == { [readable |-> FALSE, entries |-> <<>>] }
                 \cup { [readable |-> TRUE, entries |-> l] : l \in Listings }

Usable_any_extension(f) == f.entry_ok /\ f.readable /\ f.parses

\* the conditions of the scan's if-let chain, in order
Usable(f) == f.entry_ok /\ f.ext = "json" /\ f.readable /\ f.parses

Hit(session_name, f) ==
    Usable(f) /\ session_matches_working_dir(session_name, f.status.working_dir)

\* a listed json entry that cannot be read, or whose text does not parse
Failed(f) == f.entry_ok /\ f.ext = "json" /\ ~(f.readable /\ f.parses)

\* the scan gives up at the first entry it fails to read or parse
FirstHit_stops_at_failure(session_name, entries) ==
    LET hits == {i \in DOMAIN entries : Hit(session_name, entries[i])}
        first == CHOOSE i \in hits : \A j \in hits : i <= j
    IN  IF hits = {} THEN 0
        ELSE IF \E b \in 1..(first - 1) : Failed(entries[b]) THEN 0
        ELSE first

\* index of the first entry the scan returns on, 0 when it runs to the end
FirstHit(session_name, entries) ==
    LET hits == {i \in DOMAIN entries : Hit(session_name, entries[i])}
    IN  IF hits = {} THEN 0 ELSE CHOOSE i \in hits : \A j \in hits : i <= j

get_activity_for_session_result(session_name, dir, systime) ==
    IF ~dir.readable THEN Unknown
    ELSE LET hit == FirstHit(session_name, dir.entries)
         IN  IF hit = 0 THEN Unknown
             ELSE determine_state(dir.entries[hit].status, systime)

\* history of a scan: the record it returned on, the branch it took, and
\* whether it passed a file it could not read or parse on the way
ScanTaken(session_name, dir) ==
    IF ~dir.readable
    THEN [op |-> "get_activity_for_session", dir |-> <<>>, path |-> "unreadable_dir",
          skipped |-> FALSE]
    ELSE LET hit == FirstHit(session_name, dir.entries)
             wd == dir.entries[hit].status.working_dir
         IN  IF hit = 0
             THEN [op |-> "get_activity_for_session", dir |-> <<>>,
                   path |-> IF \E i \in DOMAIN dir.entries :
                                  session_matches_working_dir(
                                      session_name, dir.entries[i].status.working_dir)
                            THEN "all_skipped" ELSE "no_match",
                   skipped |-> FALSE]
             ELSE [op |-> "get_activity_for_session", dir |-> wd,
                   path |-> IF wd \in DOMAIN last_update_times THEN "event" ELSE "timestamp",
                   skipped |-> \E b \in 1..(hit - 1) : Failed(dir.entries[b])]

get_activity_for_session(session_name, dir, systime) ==
    /\ result' = get_activity_for_session_result(session_name, dir, systime)
    /\ UNCHANGED last_update_times

\* the record is classified on the map as it was, and recorded afterwards
update_from_file_classifies_first(f, systime) ==
    IF f.readable /\ f.parses
    THEN /\ record_update(f.status.working_dir)
         /\ result' = determine_state(f.status, systime)
    ELSE /\ result' = NoResult
         /\ UNCHANGED last_update_times

\* the file is read and parsed; on success record_update runs, then
\* determine_state on the updated map
update_from_file(f, systime) ==
    IF f.readable /\ f.parses
    THEN /\ record_update(f.status.working_dir)
         /\ result' = determine_state(f.status, systime)'
    ELSE /\ result' = NoResult
         /\ UNCHANGED last_update_times

(***************************************************************************)
(* The calls a caller can make on the tracker, in any order.               *)
(***************************************************************************)
CallRecordUpdate ==
    \E d \in WorkingDirs :
        /\ record_update(d)
        /\ result' = NoResult
        /\ trCall' = [op |-> "record_update", dir |-> d, path |-> "", skipped |-> FALSE]
        /\ updRun' = [dir |-> d,
                      n |-> IF updRun.dir = d /\ last_update_times[d] < now THEN 2 ELSE 1]
        /\ UNCHANGED <<now, wtVars, pureVars>>

CallGetActivityForSession ==
    \E s \in SessionNames, dir \in StateDirs, t \in SysTimes :
        /\ get_activity_for_session(s, dir, t)
        /\ trCall' = ScanTaken(s, dir)
        /\ updRun' = NoRun
        /\ UNCHANGED <<now, wtVars, pureVars>>

CallUpdateFromFile ==
    \E f \in Files, t \in SysTimes :
        /\ UNCHANGED <<now, wtVars, pureVars>>
        /\ update_from_file(f, t)
        /\ trCall' = [op |-> "update_from_file",
                      dir |-> IF f.readable /\ f.parses THEN f.status.working_dir ELSE <<>>,
                      path |-> IF ~(f.readable /\ f.parses) THEN "failed"
                               ELSE IF f.status.working_dir \in DOMAIN last_update_times
                               THEN "recorded_again" ELSE "recorded_first",
                      skipped |-> FALSE]
        /\ updRun' = NoRun

\* the clock advances; what the last call returned is no longer current
TickTracker ==
    /\ Advance
    /\ result' = NoResult
    /\ trCall' = NoTrCall
    /\ UNCHANGED <<wtVars, pureVars, last_update_times, updRun>>

InitTracker ==
    /\ tracker_new
    /\ result = NoResult
    /\ trCall = NoTrCall
    /\ updRun = NoRun

NextTracker ==
    \/ TickTracker
    \/ CallRecordUpdate
    \/ CallGetActivityForSession
    \/ CallUpdateFromFile

(***************************************************************************)
(* session_matches_working_dir as a caller may apply it: to a session name *)
(* and a working directory that are any strings over a small alphabet.     *)
(***************************************************************************)
MaxSessionLen == 2
MaxDirLen == 4

Chars == {"a", "A", "b", "/"}

Strings(n) == UNION { [1..k -> Chars] : k \in 0..n }

\* Option<T>: None, or Some of a value
None == <<>>
Some(x) == <<x>>

NoMatcherInput ==
    /\ inSession = <<>>
    /\ inDir = <<>>
    /\ outMatch = None

MatcherInputs ==
    /\ inSession \in Strings(MaxSessionLen)
    /\ inDir \in Strings(MaxDirLen)
    /\ outMatch = None

CallSessionMatchesWorkingDir ==
    /\ outMatch' = Some(session_matches_working_dir(inSession, inDir))
    /\ UNCHANGED <<now, wtVars, trVars, exceptSmVars, inSession, inDir>>

NextMatcher == CallSessionMatchesWorkingDir

(***************************************************************************)
(* task_title_to_branch (src/state/tasks.rs), applied to any title over a  *)
(* small alphabet of letters, a digit, the space, the hyphen and another   *)
(* symbol, with or without an issue identifier.                            *)
(***************************************************************************)
MaxTitleLen == 4

TitleChars == {"a", "B", "1", " ", "-", "#"}

Titles == UNION { [1..k -> TitleChars] : k \in 0..MaxTitleLen }

\* an issue identifier as the issue tracker writes it
IssueId == <<"X", "-", "1">>

\* char::is_alphanumeric on the characters of the model
is_alphanumeric(c) ==
    c \in {"a", "b", "c", "w", "x", "y", "A", "B", "C", "X", "0", "1", "2"}

\* str::split(sep): the pieces between the separators, empty ones included
RECURSIVE split(_, _)
split(s, sep) ==
    LET seps == {i \in DOMAIN s : s[i] = sep}
        first == CHOOSE i \in seps : \A j \in seps : i <= j
    IN  IF seps = {} THEN <<s>>
        ELSE <<SubSeq(s, 1, first - 1)>> \o split(SubSeq(s, first + 1, Len(s)), sep)

\* [&str]::join(sep)
RECURSIVE join(_, _)
join(parts, sep) ==
    IF parts = <<>> THEN <<>>
    ELSE IF Len(parts) = 1 THEN parts[1]
    ELSE parts[1] \o <<sep>> \o join(Tail(parts), sep)

\* empty pieces are kept, so a run of separators leaves a run of hyphens
task_title_to_branch_keeps_empty_parts(title, linear_id) ==
    LET lowered == to_lowercase(title)
        mapped == [i \in DOMAIN lowered |->
                     IF is_alphanumeric(lowered[i]) THEN lowered[i] ELSE "-"]
        slug == join(split(mapped, "-"), "-")
    IN  IF linear_id # None THEN linear_id[1] \o <<"/">> \o slug ELSE slug

task_title_to_branch(title, linear_id) ==
    LET lowered == to_lowercase(title)
        mapped == [i \in DOMAIN lowered |->
                     IF is_alphanumeric(lowered[i]) THEN lowered[i] ELSE "-"]
        parts == SelectSeq(split(mapped, "-"), LAMBDA part : part # <<>>)
        slug == join(parts, "-")
    IN  IF linear_id # None THEN linear_id[1] \o <<"/">> \o slug ELSE slug

NoSlugInput ==
    /\ inTitle = <<>>
    /\ inLinearId = None
    /\ outBranch = None

SlugInputs ==
    /\ inTitle \in Titles
    /\ inLinearId \in {None, Some(IssueId)}
    /\ outBranch = None

CallTaskTitleToBranch ==
    /\ outBranch' = Some(task_title_to_branch(inTitle, inLinearId))
    /\ UNCHANGED <<now, wtVars, trVars, exceptSlVars, inTitle, inLinearId>>

NextSlug == CallTaskTitleToBranch

(***************************************************************************)
(* The task status resolver (src/state/tasks.rs).  A Task is modelled by   *)
(* the fields the resolver reads: the local status and the stored PR       *)
(* fields; a BranchPrInfo by state and is_draft; a LinearIssueStatus by    *)
(* state_type.  Strings are compared exactly, as match does.               *)
(***************************************************************************)
TaskStatus == {"Backlog", "Todo", "Inprogress", "Inreview", "Done", "Cancelled"}

\* stored pr_status values: the three the resolver knows and one it does not
StoredPrStatuses == {"merged", "closed", "open", "MERGED"}
\* live PR states: the three gh reports and one the resolver does not know
PrStates == {"OPEN", "CLOSED", "MERGED", "merged"}
\* issue state types: those of the issue tracker, the alternative spelling
\* the resolver accepts, and one it does not know
StateTypes == {"backlog", "unstarted", "started", "completed", "canceled",
               "cancelled", "triage"}

Task == [status : TaskStatus,
         pr_status : {None} \cup {Some(s) : s \in StoredPrStatuses},
         pr_is_draft : {None, Some(TRUE), Some(FALSE)}]

BranchPrInfo == [state : PrStates, is_draft : BOOLEAN]

LinearIssueStatus == [state_type : StateTypes]

\* unstarted issues are filed under Backlog, as the board's columns do
from_linear_state_type_unstarted_backlog(state_type) ==
    CASE state_type = "backlog" -> "Backlog"
      [] state_type = "unstarted" -> "Backlog"
      [] state_type = "started" -> "Inprogress"
      [] state_type = "completed" -> "Done"
      [] state_type \in {"canceled", "cancelled"} -> "Cancelled"
      [] OTHER -> "Backlog"

from_linear_state_type(state_type) ==
    CASE state_type = "backlog" -> "Backlog"
      [] state_type = "unstarted" -> "Todo"
      [] state_type = "started" -> "Inprogress"
      [] state_type = "completed" -> "Done"
      [] state_type \in {"canceled", "cancelled"} -> "Cancelled"
      [] OTHER -> "Backlog"

\* an open PR counts as ready for review only when pr_is_draft is Some(false)
effective_status_unset_is_draft(self) ==
    IF self.pr_status # None /\ self.pr_status[1] = "merged" THEN "Done"
    ELSE IF self.pr_status # None /\ self.pr_status[1] = "closed" THEN "Cancelled"
    ELSE IF self.pr_status # None /\ self.pr_status[1] = "open"
              /\ self.pr_is_draft = Some(FALSE) THEN "Inreview"
    ELSE self.status

effective_status(self) ==
    IF self.pr_status # None /\ self.pr_status[1] = "merged" THEN "Done"
    ELSE IF self.pr_status # None /\ self.pr_status[1] = "closed" THEN "Cancelled"
    ELSE IF self.pr_status # None /\ self.pr_status[1] = "open"
              /\ self.pr_is_draft # Some(TRUE) THEN "Inreview"
    ELSE self.status

\* the rules below the PR rules, in the order of the source
after_pr_rules(self, has_worktree, linear_status) ==
    LET linear == linear_status[1]
    IN  IF linear_status # None /\ linear.state_type = "completed" THEN "Done"
        ELSE IF linear_status # None /\ linear.state_type = "canceled" THEN "Cancelled"
        ELSE IF has_worktree THEN "Inprogress"
        ELSE IF linear_status # None THEN from_linear_state_type(linear.state_type)
        ELSE self.status

\* the live PR rule, None when it does not decide
live_pr_rule(branch_pr, has_worktree) ==
    LET pr == branch_pr[1]
    IN  IF branch_pr # None /\ pr.state = "MERGED" THEN Some("Done")
        ELSE IF branch_pr # None /\ pr.state = "CLOSED" THEN Some("Cancelled")
        ELSE IF branch_pr # None /\ pr.state = "OPEN" /\ ~pr.is_draft THEN Some("Inreview")
        ELSE IF branch_pr # None /\ pr.state = "OPEN" /\ has_worktree THEN Some("Inprogress")
        ELSE None

\* the stored PR status is consulted before the live one
effective_status_with_pr_stored_first(self, branch_pr, has_worktree, linear_status) ==
    IF self.pr_status # None THEN effective_status(self)
    ELSE IF live_pr_rule(branch_pr, has_worktree) # None
    THEN live_pr_rule(branch_pr, has_worktree)[1]
    ELSE after_pr_rules(self, has_worktree, linear_status)

\* worktree presence is consulted before the terminal issue states
effective_status_with_pr_worktree_first(self, branch_pr, has_worktree, linear_status) ==
    IF live_pr_rule(branch_pr, has_worktree) # None
    THEN live_pr_rule(branch_pr, has_worktree)[1]
    ELSE IF self.pr_status # None THEN effective_status(self)
    ELSE IF has_worktree THEN "Inprogress"
    ELSE after_pr_rules(self, has_worktree, linear_status)

\* the issue status, terminal or not, is consulted before worktree presence
effective_status_with_pr_issue_first(self, branch_pr, has_worktree, linear_status) ==
    IF live_pr_rule(branch_pr, has_worktree) # None
    THEN live_pr_rule(branch_pr, has_worktree)[1]
    ELSE IF self.pr_status # None THEN effective_status(self)
    ELSE IF linear_status # None THEN from_linear_state_type(linear_status[1].state_type)
    ELSE after_pr_rules(self, has_worktree, linear_status)

\* with no signal at all a task is filed under Backlog
effective_status_with_pr_default_backlog(self, branch_pr, has_worktree, linear_status) ==
    IF live_pr_rule(branch_pr, has_worktree) # None
    THEN live_pr_rule(branch_pr, has_worktree)[1]
    ELSE IF self.pr_status # None THEN effective_status(self)
    ELSE IF linear_status = None /\ ~has_worktree THEN "Backlog"
    ELSE after_pr_rules(self, has_worktree, linear_status)

effective_status_with_pr(self, branch_pr, has_worktree, linear_status) ==
    LET pr == branch_pr[1]
        linear == linear_status[1]
    IN  \* Priority 1: live fetched PR status
        IF branch_pr # None /\ pr.state = "MERGED" THEN "Done"
        ELSE IF branch_pr # None /\ pr.state = "CLOSED" THEN "Cancelled"
        ELSE IF branch_pr # None /\ pr.state = "OPEN" /\ ~pr.is_draft THEN "Inreview"
        ELSE IF branch_pr # None /\ pr.state = "OPEN" /\ has_worktree THEN "Inprogress"
        \* Priority 2: stored PR status
        ELSE IF self.pr_status # None THEN effective_status(self)
        \* Priority 3: terminal issue states
        ELSE IF linear_status # None /\ linear.state_type = "completed" THEN "Done"
        ELSE IF linear_status # None /\ linear.state_type = "canceled" THEN "Cancelled"
        \* Priority 4: worktree presence
        ELSE IF has_worktree THEN "Inprogress"
        \* Priority 5: non-terminal issue status
        ELSE IF linear_status # None THEN from_linear_state_type(linear.state_type)
        \* Priority 6: local stored status
        ELSE self.status

NoResolverInput ==
    /\ inTask = [status |-> "Backlog", pr_status |-> None, pr_is_draft |-> None]
    /\ inBranchPr = None
    /\ inHasWorktree = FALSE
    /\ inLinearStatus = None
    /\ outStatus = None
    /\ rsCall = ""

ResolverInputs ==
    /\ inTask \in Task
    /\ inBranchPr \in {None} \cup {Some(pr) : pr \in BranchPrInfo}
    /\ inHasWorktree \in BOOLEAN
    /\ inLinearStatus \in {None} \cup {Some(l) : l \in LinearIssueStatus}
    /\ outStatus = None
    /\ rsCall = ""

CallEffectiveStatus ==
    /\ outStatus' = Some(effective_status(inTask))
    /\ rsCall' = "effective_status"
    /\ UNCHANGED <<now, wtVars, trVars, exceptRsVars,
                   inTask, inBranchPr, inHasWorktree, inLinearStatus>>

CallEffectiveStatusWithPr ==
    /\ outStatus' = Some(effective_status_with_pr(
                             inTask, inBranchPr, inHasWorktree, inLinearStatus))
    /\ rsCall' = "effective_status_with_pr"
    /\ UNCHANGED <<now, wtVars, trVars, exceptRsVars,
                   inTask, inBranchPr, inHasWorktree, inLinearStatus>>

NextResolver ==
    \/ CallEffectiveStatus
    \/ CallEffectiveStatusWithPr

(***************************************************************************)
(* The board columns (TasksState, src/state/tasks.rs).  A Task carries     *)
(* here its title, description and issue identifier as well; branch names  *)
(* are strings.  A HashMap is iterated in an order its contents do not     *)
(* determine: an evaluation meets the keys of branch_prs in any order.     *)
(***************************************************************************)
\* two titles with the derived slug a-b: in the second the separator is not
\* a space
TitleAB == <<"A", " ", "b">>
TitleHash == <<"a", "#", "b">>

ColumnTasks ==
    [ title : {TitleAB, TitleHash}, description : {None, Some(<<"C">>)},
      linear_issue_id : {None, Some(IssueId)}, status : TaskStatus,
      pr_status : {None}, pr_is_draft : {None} ]

\* the task lists a board holds: one task without a description, or two
\* tasks of which the second has a description and an issue identifier
TaskLists ==
    { <<t>> : t \in { x \in ColumnTasks : x.description = None } }
    \cup { <<t, u>> :
             t \in { x \in ColumnTasks : /\ x.status = "Backlog"
                                         /\ x.description = None
                                         /\ x.title = TitleAB
                                         /\ x.linear_issue_id = None },
             u \in { x \in ColumnTasks : /\ x.status = "Inprogress"
                                         /\ x.description # None
                                         /\ x.title = TitleAB
                                         /\ x.linear_issue_id # None } }

\* no query, or one that occurs in the description only
SearchFilters == { <<>>, <<"c">> }

\* branch names: the slug of the title, a longer name in other case, a part
\* of the slug, another name
PrBranches ==
    { <<"a", "-", "b">>, <<"A", "-", "b", "-", "1">>, <<"b">>, <<"c">> }

ColumnPrInfos ==
    { [state |-> "MERGED", is_draft |-> FALSE], [state |-> "OPEN", is_draft |-> FALSE] }

\* the maps with no PR, one PR or two PRs
BranchPrMaps ==
    UNION { [K -> ColumnPrInfos] : K \in {{}} \cup { {x, y} : x, y \in PrBranches } }

Worktree(b) == [branch |-> b, is_current |-> FALSE]

ColumnWorktreeLists ==
    { <<>>,
      << Worktree(<<"A", "-", "b", "-", "1">>) >>,
      << Worktree(<<"c">>), Worktree(<<"A", "-", "b", "-", "1">>) >>,
      << Worktree(<<"A", "-", "b", "-", "1">>), Worktree(<<"a", "-", "b">>) >> }

LinearStatusMaps ==
    { EmptyMap, [id \in {IssueId} |-> [state_type |-> "completed"]] }

\* the orders in which an iteration can meet the keys of a HashMap
IterationOrders(m) ==
    { o \in [1..Cardinality(DOMAIN m) -> DOMAIN m] :
        \A i, j \in DOMAIN o : o[i] = o[j] => i = j }

VISIBLE == <<"Backlog", "Inprogress", "Inreview", "Done">>

\* a column_index that gives Todo and Cancelled columns of their own
column_index_own_columns(status) ==
    CASE status = "Backlog" -> 0
      [] status = "Inprogress" -> 1
      [] status = "Inreview" -> 2
      [] status = "Done" -> 3
      [] status = "Todo" -> 4
      [] status = "Cancelled" -> 5

column_index(status) ==
    CASE status \in {"Backlog", "Todo"} -> 0
      [] status = "Inprogress" -> 1
      [] status = "Inreview" -> 2
      [] status \in {"Done", "Cancelled"} -> 3

\* str::replace of one character by another
replace(s, from, to) == [i \in DOMAIN s |-> IF s[i] = from THEN to ELSE s[i]]

expected_branch(t) ==
    task_title_to_branch(t.title, t.linear_issue_id)

\* worktrees.iter().find(..): the first worktree whose branch is the expected
\* one, or contains it or is contained in it, ignoring case
matching_branch(t, wts) ==
    LET expected == expected_branch(t)
        found == { i \in DOMAIN wts :
                     \/ wts[i].branch = expected
                     \/ contains(to_lowercase(wts[i].branch), to_lowercase(expected))
                     \/ contains(to_lowercase(expected), to_lowercase(wts[i].branch)) }
    IN  IF found = {} THEN None
        ELSE Some(wts[CHOOSE i \in found : \A j \in found : i <= j])

\* a fallback met only by PR branches that contain the slug
slug_fallback_one_way(t, prs, order) ==
    LET task_slug == replace(to_lowercase(t.title), " ", "-")
        hits == { i \in DOMAIN order : contains(to_lowercase(order[i]), task_slug) }
    IN  IF hits = {} THEN None
        ELSE Some(prs[order[CHOOSE i \in hits : \A j \in hits : i <= j]])

\* branch_prs.iter().find_map(..): the PR of the first key met whose name
\* contains the slug of the title or is contained in it
slug_fallback(t, prs, order) ==
    LET task_slug == replace(to_lowercase(t.title), " ", "-")
        hits == { i \in DOMAIN order :
                    LET branch_lower == to_lowercase(order[i])
                    IN  contains(branch_lower, task_slug) \/ contains(task_slug, branch_lower) }
    IN  IF hits = {} THEN None
        ELSE Some(prs[order[CHOOSE i \in hits : \A j \in hits : i <= j]])

\* a lookup that tries the derived branch name before the worktree's
branch_pr_expected_first(t, prs, order, wts) ==
    LET matching == matching_branch(t, wts)
    IN  IF expected_branch(t) \in DOMAIN prs
            THEN Some(prs[expected_branch(t)])
        ELSE IF matching # None /\ matching[1].branch \in DOMAIN prs
            THEN Some(prs[matching[1].branch])
        ELSE slug_fallback(t, prs, order)

branch_pr(t, prs, order, wts) ==
    LET matching == matching_branch(t, wts)
    IN  IF matching # None /\ matching[1].branch \in DOMAIN prs
            THEN Some(prs[matching[1].branch])
        ELSE IF expected_branch(t) \in DOMAIN prs
            THEN Some(prs[expected_branch(t)])
        ELSE slug_fallback(t, prs, order)

has_worktree(t, wts) == matching_branch(t, wts) # None

linear_status(t, statuses) ==
    IF t.linear_issue_id # None /\ t.linear_issue_id[1] \in DOMAIN statuses
        THEN Some(statuses[t.linear_issue_id[1]])
        ELSE None

\* the column the first filter of tasks_in_column_with_prs compares
task_column(t, prs, order, wts, statuses) ==
    column_index(effective_status_with_pr(
        t, branch_pr(t, prs, order, wts), has_worktree(t, wts), linear_status(t, statuses)))

\* the second filter: the query occurs in the title or the description
matches_search(t) ==
    \/ search_filter = <<>>
    \/ contains(to_lowercase(t.title), to_lowercase(search_filter))
    \/ /\ t.description # None
       /\ contains(to_lowercase(t.description[1]), to_lowercase(search_filter))

tasks_in_column_with_prs(status, prs, order, wts, statuses) ==
    SelectSeq(tasks, LAMBDA t :
        /\ task_column(t, prs, order, wts, statuses) = column_index(status)
        /\ matches_search(t))

NoColumnsCall == [status |-> "", order |-> <<>>]

NoColumnsInput ==
    /\ tasks = <<>>
    /\ search_filter = <<>>
    /\ inBranchPrs = EmptyMap
    /\ inWorktrees = <<>>
    /\ inLinearStatuses = EmptyMap
    /\ outTasks = None
    /\ colCall = NoColumnsCall

ColumnsInputs ==
    /\ tasks \in TaskLists
    /\ search_filter \in SearchFilters
    /\ inBranchPrs \in BranchPrMaps
    /\ inWorktrees \in ColumnWorktreeLists
    /\ inLinearStatuses \in LinearStatusMaps
    /\ outTasks = None
    /\ colCall = NoColumnsCall

CallTasksInColumnWithPrs ==
    \E i \in DOMAIN VISIBLE, order \in IterationOrders(inBranchPrs) :
        /\ outTasks' = Some(tasks_in_column_with_prs(
                                VISIBLE[i], inBranchPrs, order, inWorktrees, inLinearStatuses))
        /\ colCall' = [status |-> VISIBLE[i], order |-> order]
        /\ UNCHANGED <<now, wtVars, trVars, exceptColVars, tasks, search_filter,
                       inBranchPrs, inWorktrees, inLinearStatuses>>

NextColumns == CallTasksInColumnWithPrs

(***************************************************************************)
(* SessionsState (src/state/sessions.rs): the session list of the board.   *)
(* A fresh list comes from list_sessions (src/external/zellij.rs); the     *)
(* tracker's update_sessions writes the activity of each listed session.   *)
(***************************************************************************)
MaxSessions == 2

\* what list_sessions builds from one line of output
ListedSession ==
    [ name : SessionNames, is_current : {FALSE}, is_dead : BOOLEAN,
      needs_attention : {FALSE}, claude_activity : {"Unknown"},
      context_percentage : {"None"} ]

list_sessions == UNION { [1..n -> ListedSession] : n \in 0..MaxSessions }

\* the results get_activity_for_session gives here
SessionActivityResults ==
    { [state |-> "Unknown", context_percentage |-> "None"],
      [state |-> "Thinking", context_percentage |-> "Some(10.0)"],
      [state |-> "Idle", context_percentage |-> "None"] }

InitSessions ==
    /\ sessions = <<>>
    /\ loading = FALSE
    /\ sessions_error = None
    /\ ssCall = [op |-> "", new_sessions |-> <<>>]

\* a set_sessions that carries the values over by position in the list
set_sessions_by_position(new_sessions) ==
    [ i \in DOMAIN new_sessions |->
        IF i \in DOMAIN sessions
            THEN [new_sessions[i] EXCEPT
                    !.claude_activity = sessions[i].claude_activity,
                    !.context_percentage = sessions[i].context_percentage]
            ELSE new_sessions[i] ]

\* a set_sessions that gives a returning name what it had when it was dropped
set_sessions_remembers(new_sessions) ==
    [ i \in DOMAIN new_sessions |->
        LET found == { j \in DOMAIN sessions : sessions[j].name = new_sessions[i].name }
            existing == sessions[CHOOSE j \in found : \A k \in found : j <= k]
        IN  IF found # {}
                THEN [new_sessions[i] EXCEPT
                        !.claude_activity = existing.claude_activity,
                        !.context_percentage = existing.context_percentage]
            ELSE IF new_sessions[i].name \in DOMAIN departed
                THEN [new_sessions[i] EXCEPT
                        !.claude_activity = departed[new_sessions[i].name].claude_activity,
                        !.context_percentage =
                            departed[new_sessions[i].name].context_percentage]
                ELSE new_sessions[i] ]

\* the list set_sessions stores
set_sessions(new_sessions) ==
    [ i \in DOMAIN new_sessions |->
        LET found == { j \in DOMAIN sessions : sessions[j].name = new_sessions[i].name }
            existing == sessions[CHOOSE j \in found : \A k \in found : j <= k]
        IN  IF found # {}
                THEN [new_sessions[i] EXCEPT
                        !.claude_activity = existing.claude_activity,
                        !.context_percentage = existing.context_percentage]
                ELSE new_sessions[i] ]

CallSetSessions ==
    \E new_sessions \in list_sessions :
        /\ sessions' = set_sessions(new_sessions)
        /\ sessions_error' = None
        /\ ssCall' = [op |-> "set_sessions", new_sessions |-> new_sessions]
        /\ UNCHANGED <<now, wtVars, trVars, exceptSsVars, loading>>

\* ClaudeActivityTracker::update_sessions on the stored list: every session
\* gets the result of get_activity_for_session for its name
CallUpdateSessions ==
    \E activity \in [SessionNames -> SessionActivityResults] :
        /\ sessions' = [ i \in DOMAIN sessions |->
                           [sessions[i] EXCEPT
                              !.claude_activity = activity[sessions[i].name].state,
                              !.context_percentage =
                                  activity[sessions[i].name].context_percentage] ]
        /\ ssCall' = [op |-> "update_sessions", new_sessions |-> <<>>]
        /\ UNCHANGED <<now, wtVars, trVars, exceptSsVars, loading, sessions_error>>

NextSessions ==
    \/ CallSetSessions
    \/ CallUpdateSessions

NoSessionHistory == departed = EmptyMap

NamesOf(l) == { l[i].name : i \in DOMAIN l }

FirstNamed(l, n) == l[CHOOSE i \in DOMAIN l : l[i].name = n /\ \A j \in 1..(i - 1) : l[j].name # n]

\* set_sessions, with history: a name the call drops is remembered with what
\* its session had; a remembered name that the call lists is marked as back;
\* a name listed before and after is forgotten
CallSetSessionsTracked ==
    \E new_sessions \in list_sessions :
        /\ sessions' = set_sessions(new_sessions)
        /\ sessions_error' = None
        /\ ssCall' = [op |-> "set_sessions", new_sessions |-> new_sessions]
        /\ departed' =
              [ n \in (NamesOf(sessions) \ NamesOf(new_sessions))
                        \cup ((DOMAIN departed \ NamesOf(sessions)) ) |->
                  IF n \in NamesOf(sessions)
                      THEN [claude_activity |-> FirstNamed(sessions, n).claude_activity,
                            context_percentage |-> FirstNamed(sessions, n).context_percentage,
                            back |-> FALSE]
                      ELSE [departed[n] EXCEPT !.back = n \in NamesOf(new_sessions)] ]
        /\ UNCHANGED <<now, wtVars, trVars, smVars, rsVars, slVars, colVars, lkVars,
                       awVars, cwVars, ckVars, whVars, wlVars, loading>>

NextSessionsHistory ==
    \/ CallSetSessionsTracked
    \/ CallUpdateSessions

(***************************************************************************)
(* ActivityWatcher (src/external/claude_activity.rs): the callback the     *)
(* file watcher runs on its own thread, one path at a time, and the        *)
(* bounded channel to the control thread, which receives concurrently.     *)
(***************************************************************************)
QueueCap == 2
MaxEventPaths == 2

\* a path by file stem and extension
WatchedPaths ==
    { [stem |-> "a", extension |-> Some("json")], [stem |-> "b", extension |-> Some("json")],
      [stem |-> "a", extension |-> Some("tmp")], [stem |-> "a", extension |-> None] }

EventKinds == {"Create", "Modify", "Remove", "Access"}

\* Result<Event, notify::Error>
WatchResults ==
    { [ok |-> FALSE, kind |-> "", paths |-> <<>>] }
    \cup [ ok : {TRUE}, kind : EventKinds,
           paths : UNION { [1..n -> WatchedPaths] : n \in 0..MaxEventPaths } ]

InitWatcher ==
    /\ queue = <<>>
    /\ callback = [kind |-> "", paths |-> <<>>]
    /\ lastEvent = [kind |-> "", dropped |-> FALSE]

\* path.extension().map(|e| e == "json").unwrap_or(false), taking any extension
has_any_extension(path) == path.extension # None

has_json_extension(path) == path.extension # None /\ path.extension[1] = "json"

\* Sender::try_send: the message is queued if there is room, else dropped
try_send(q, msg) == IF Len(q) < QueueCap THEN Append(q, msg) ELSE q

\* the watcher calls the callback with a result; the callback returns at once
\* unless the result is a Create or Modify event
WatcherCallback ==
    /\ callback.paths = <<>>
    /\ \E res \in WatchResults :
        /\ lastEvent' = [kind |-> IF res.ok THEN res.kind ELSE "Err", dropped |-> FALSE]
        /\ callback' = IF res.ok /\ res.kind \in {"Create", "Modify"}
                           THEN [kind |-> res.kind, paths |-> res.paths]
                           ELSE [kind |-> "", paths |-> <<>>]
    /\ UNCHANGED <<now, wtVars, trVars, exceptAwVars, queue>>

\* one turn of the loop over event.paths; a message records the event kind
WatcherForward ==
    /\ callback.paths # <<>>
    /\ queue' = IF has_json_extension(Head(callback.paths))
                    THEN try_send(queue, [path |-> Head(callback.paths),
                                          kind |-> callback.kind])
                    ELSE queue
    /\ callback' = IF Tail(callback.paths) = <<>>
                       THEN [kind |-> "", paths |-> <<>>]
                       ELSE [callback EXCEPT !.paths = Tail(callback.paths)]
    /\ lastEvent' = [lastEvent EXCEPT !.dropped =
                        @ \/ ( /\ has_json_extension(Head(callback.paths))
                               /\ try_send(queue, Head(callback.paths)) = queue )]
    /\ UNCHANGED <<now, wtVars, trVars, exceptAwVars>>

\* the control thread takes the next path from the channel
Receive ==
    /\ queue # <<>>
    /\ queue' = Tail(queue)
    /\ UNCHANGED <<now, wtVars, trVars, exceptAwVars, callback, lastEvent>>

NextWatcher ==
    \/ WatcherCallback
    \/ WatcherForward
    \/ Receive

(***************************************************************************)
(* cmd_watch (src/main.rs): the loop that polls the issue tracker and      *)
(* launches a session for each new issue.  An issue is modelled by its     *)
(* identifier; a response may fail or list any identifiers, and the import *)
(* into local storage may fail.                                            *)
(***************************************************************************)
MaxPolls == 3
MaxIssues == 2

Identifiers == {"ENG-1", "ENG-2"}

\* Result<Vec<LinearIssue>, _> of fetch_gasit_issues
FetchResults ==
    { [ok |-> FALSE, issues |-> <<>>] }
    \cup [ ok : {TRUE}, issues : UNION { [1..n -> Identifiers] : n \in 0..MaxIssues } ]

\* cmd_watch is not running
NotWatching ==
    /\ gassed = {}
    /\ new_issues = <<>>
    /\ polls = 0
    /\ known = {}
    /\ launched = [id \in Identifiers |-> 0]

\* the state on entry to the loop: gassed holds the linear ids of the tasks
\* that storage.list_tasks() returned
StartWatch ==
    /\ known \in SUBSET Identifiers
    /\ gassed = known
    /\ new_issues = <<>>
    /\ polls = 0
    /\ launched = [id \in Identifiers |-> 0]

\* one fetch: the issues not yet in gassed are collected before any is handled
Poll ==
    /\ new_issues = <<>>
    /\ polls < MaxPolls
    /\ polls' = polls + 1
    /\ \E res \in FetchResults :
        new_issues' = IF res.ok
                          THEN SelectSeq(res.issues, LAMBDA i : i \notin gassed)
                          ELSE <<>>
    /\ UNCHANGED <<now, wtVars, trVars, exceptCwVars, gassed, known, launched>>

\* one turn of the loop over new_issues: import, then launch and remember
HandleIssue ==
    /\ new_issues # <<>>
    /\ \E imported \in BOOLEAN :
        IF imported
            THEN /\ launched' = [launched EXCEPT ![Head(new_issues)] = @ + 1]
                 /\ gassed' = gassed \cup {Head(new_issues)}
            ELSE UNCHANGED <<launched, gassed>>
    /\ new_issues' = Tail(new_issues)
    /\ UNCHANGED <<now, wtVars, trVars, exceptCwVars, polls, known>>

NextWatch ==
    \/ Poll
    \/ HandleIssue

NoWatchLog == watchLog = [fetch |-> "", listed |-> {}, failed |-> {}]

\* a loop body that remembers the issue whether or not the import succeeded
handle_issue_remembers_failed(issue, imported) ==
    /\ launched' = IF imported THEN [launched EXCEPT ![issue] = @ + 1] ELSE launched
    /\ gassed' = gassed \cup {issue}

\* the body of the loop over new_issues: a failed import skips the rest
handle_issue(issue, imported) ==
    IF imported
        THEN /\ launched' = [launched EXCEPT ![issue] = @ + 1]
             /\ gassed' = gassed \cup {issue}
        ELSE UNCHANGED <<launched, gassed>>

\* Poll, with history of the outcome of the fetch
PollTracked ==
    /\ new_issues = <<>>
    /\ polls < MaxPolls
    /\ polls' = polls + 1
    /\ \E res \in FetchResults :
        /\ new_issues' = IF res.ok
                             THEN SelectSeq(res.issues, LAMBDA i : i \notin gassed)
                             ELSE <<>>
        /\ watchLog' = [watchLog EXCEPT
                            !.fetch = IF res.ok THEN "ok" ELSE "err",
                            !.listed = { res.issues[i] : i \in DOMAIN res.issues }]
    /\ UNCHANGED <<now, wtVars, trVars, smVars, rsVars, slVars, colVars, ssVars, lkVars,
                   awVars, ckVars, whVars, shVars, gassed, known, launched>>

\* HandleIssue, with history of the issues imported never but in vain
HandleIssueTracked ==
    /\ new_issues # <<>>
    /\ \E imported \in BOOLEAN :
        /\ handle_issue(Head(new_issues), imported)
        /\ watchLog' = [watchLog EXCEPT
                            !.failed = IF imported THEN @ \ {Head(new_issues)}
                                       ELSE IF launched[Head(new_issues)] = 0
                                           THEN @ \cup {Head(new_issues)}
                                           ELSE @]
    /\ new_issues' = Tail(new_issues)
    /\ UNCHANGED <<now, wtVars, trVars, smVars, rsVars, slVars, colVars, ssVars, lkVars,
                   awVars, ckVars, whVars, shVars, polls, known>>

NextWatchTracked ==
    \/ PollTracked
    \/ HandleIssueTracked

(***************************************************************************)
(* BranchPrInfo::checks_status and the status checks get_all_open_prs      *)
(* builds from the batch response (src/external/gh.rs).  A PR info comes   *)
(* from gh pr view with any check list, or from the batch query.           *)
(***************************************************************************)
MaxChecks == 2

Conclusions ==
    { None, Some("SUCCESS"), Some("FAILURE"), Some("ERROR"), Some("TIMED_OUT"),
      Some("NEUTRAL"), Some("SKIPPED"), Some("CANCELLED") }

Statuses == { None, Some("COMPLETED"), Some("IN_PROGRESS") }

StatusCheck == [ typename : {"CheckRun"}, conclusion : Conclusions, status : Statuses ]

\* Option<Vec<StatusCheck>> as gh pr view may give it
Rollups ==
    { None } \cup { Some(l) : l \in UNION { [1..n -> StatusCheck] : n \in 0..MaxChecks } }

\* a context of the batch response: a CheckRun has conclusion and status, a
\* StatusContext has state
GraphQLContext ==
    [ typename : {"CheckRun"}, conclusion : { None, Some("SUCCESS"), Some("FAILURE") },
      status : { Some("COMPLETED"), Some("IN_PROGRESS") }, state : { None } ]
    \cup
    [ typename : {"StatusContext"}, conclusion : { None }, status : { None },
      state : { None, Some("SUCCESS"), Some("FAILURE"), Some("ERROR"), Some("PENDING"),
                Some("EXPECTED"), Some("OTHER") } ]

\* Option<GraphQLStatusCheckRollup>, by its contexts.nodes
GraphQLRollups ==
    { None } \cup { Some(l) : l \in UNION { [1..n -> GraphQLContext] : n \in 0..MaxChecks } }

\* the conclusions that count as a failure, without TIMED_OUT
is_failure_no_timeout(conclusion) ==
    conclusion \in { Some("FAILURE"), Some("ERROR") }

is_failure(conclusion) ==
    conclusion \in { Some("FAILURE"), Some("ERROR"), Some("TIMED_OUT") }

\* the loop of checks_status from check i on, with the flags so far
RECURSIVE checks_loop(_, _, _, _)
checks_loop(checks, i, has_failure, has_pending) ==
    IF i > Len(checks) THEN
        IF has_failure THEN Some("FAILURE")
        ELSE IF has_pending THEN Some("PENDING")
        ELSE Some("SUCCESS")
    ELSE IF is_failure(checks[i].conclusion) THEN
        checks_loop(checks, i + 1, TRUE, has_pending)
    ELSE IF checks[i].conclusion \in { Some("SUCCESS"), Some("NEUTRAL"), Some("SKIPPED") } THEN
        checks_loop(checks, i + 1, has_failure, has_pending)
    ELSE IF checks[i].status # Some("COMPLETED") THEN
        checks_loop(checks, i + 1, has_failure, TRUE)
    ELSE checks_loop(checks, i + 1, has_failure, has_pending)

checks_status(status_check_rollup) ==
    IF status_check_rollup = None THEN None
    ELSE IF status_check_rollup[1] = <<>> THEN None
    ELSE checks_loop(status_check_rollup[1], 1, FALSE, FALSE)

\* the conclusion get_all_open_prs gives a StatusContext of state s
context_conclusion(s) ==
    CASE s = "SUCCESS" -> "SUCCESS"
      [] s \in {"FAILURE", "ERROR"} -> "FAILURE"
      [] s \in {"PENDING", "EXPECTED"} -> "PENDING"
      [] OTHER -> s

\* the StatusCheck get_all_open_prs builds from a context
convert_context(ctx) ==
    IF ctx.typename = "StatusContext"
        THEN [ typename |-> ctx.typename,
               conclusion |-> IF ctx.state = None THEN None
                              ELSE Some(context_conclusion(ctx.state[1])),
               status |-> Some("COMPLETED") ]
        ELSE [ typename |-> ctx.typename, conclusion |-> ctx.conclusion,
               status |-> ctx.status ]

\* pr.status_check_rollup.map(..)
convert_rollup(rollup) ==
    IF rollup = None THEN None
    ELSE Some([ i \in DOMAIN rollup[1] |-> convert_context(rollup[1][i]) ])

NoChecksInput ==
    /\ chkSource = ""
    /\ inContexts = None
    /\ inRollup = None
    /\ rollupBuilt = FALSE
    /\ outChecks = <<>>

ChecksInputs ==
    /\ outChecks = <<>>
    /\ \/ /\ chkSource = "view"
          /\ inContexts = None
          /\ inRollup \in Rollups
          /\ rollupBuilt = TRUE
       \/ /\ chkSource = "batch"
          /\ inContexts \in GraphQLRollups
          /\ inRollup = None
          /\ rollupBuilt = FALSE

\* get_all_open_prs builds the BranchPrInfo of the pull request
CallGetAllOpenPrs ==
    /\ chkSource = "batch"
    /\ ~rollupBuilt
    /\ inRollup' = convert_rollup(inContexts)
    /\ rollupBuilt' = TRUE
    /\ UNCHANGED <<now, wtVars, trVars, exceptCkVars, chkSource, inContexts, outChecks>>

CallChecksStatus ==
    /\ rollupBuilt
    /\ outChecks' = <<checks_status(inRollup)>>
    /\ UNCHANGED <<now, wtVars, trVars, exceptCkVars, chkSource, inContexts, inRollup,
                   rollupBuilt>>

NextChecks ==
    \/ CallGetAllOpenPrs
    \/ CallChecksStatus

(***************************************************************************)
(* Specifications: one per component, from the state after construction.   *)
(***************************************************************************)
Init ==
    /\ now = 0
    /\ InitWorktrees
    /\ InitTracker
    /\ NoMatcherInput
    /\ NoResolverInput
    /\ NoSlugInput
    /\ NoColumnsInput
    /\ InitSessions
    /\ NoneApplied
    /\ InitWatcher
    /\ NotWatching
    /\ NoChecksInput
    /\ NoPrHistory
    /\ NoSessionHistory
    /\ NoWatchLog

InitMatcher ==
    /\ now = 0
    /\ InitWorktrees
    /\ InitTracker
    /\ MatcherInputs
    /\ NoResolverInput
    /\ NoSlugInput
    /\ NoColumnsInput
    /\ InitSessions
    /\ NoneApplied
    /\ InitWatcher
    /\ NotWatching
    /\ NoChecksInput
    /\ NoPrHistory
    /\ NoSessionHistory
    /\ NoWatchLog

InitSlug ==
    /\ now = 0
    /\ InitWorktrees
    /\ InitTracker
    /\ NoMatcherInput
    /\ NoResolverInput
    /\ SlugInputs
    /\ NoColumnsInput
    /\ InitSessions
    /\ NoneApplied
    /\ InitWatcher
    /\ NotWatching
    /\ NoChecksInput
    /\ NoPrHistory
    /\ NoSessionHistory
    /\ NoWatchLog

InitResolver ==
    /\ now = 0
    /\ InitWorktrees
    /\ InitTracker
    /\ NoMatcherInput
    /\ ResolverInputs
    /\ NoSlugInput
    /\ NoColumnsInput
    /\ InitSessions
    /\ NoneApplied
    /\ InitWatcher
    /\ NotWatching
    /\ NoChecksInput
    /\ NoPrHistory
    /\ NoSessionHistory
    /\ NoWatchLog

InitColumns ==
    /\ now = 0
    /\ InitWorktrees
    /\ InitTracker
    /\ NoMatcherInput
    /\ NoResolverInput
    /\ NoSlugInput
    /\ ColumnsInputs
    /\ InitSessions
    /\ NoneApplied
    /\ InitWatcher
    /\ NotWatching
    /\ NoChecksInput
    /\ NoPrHistory
    /\ NoSessionHistory
    /\ NoWatchLog

InitWatch ==
    /\ now = 0
    /\ InitWorktrees
    /\ InitTracker
    /\ NoMatcherInput
    /\ NoResolverInput
    /\ NoSlugInput
    /\ NoColumnsInput
    /\ InitSessions
    /\ NoneApplied
    /\ InitWatcher
    /\ StartWatch
    /\ NoChecksInput
    /\ NoPrHistory
    /\ NoSessionHistory
    /\ NoWatchLog

InitChecks ==
    /\ now = 0
    /\ InitWorktrees
    /\ InitTracker
    /\ NoMatcherInput
    /\ NoResolverInput
    /\ NoSlugInput
    /\ NoColumnsInput
    /\ InitSessions
    /\ NoneApplied
    /\ InitWatcher
    /\ NotWatching
    /\ ChecksInputs
    /\ NoPrHistory
    /\ NoSessionHistory
    /\ NoWatchLog

SpecWorktrees == Init /\ [][NextWorktrees]_vars

SpecWorktreesMarks == Init /\ [][NextWorktreesMarks]_vars

SpecLookups == Init /\ [][NextLookups]_vars

SpecWorktreesCleanup == Init /\ [][NextWorktreesCleanup]_vars

SpecTracker == Init /\ [][NextTracker]_vars

SpecMatcher == InitMatcher /\ [][NextMatcher]_vars

SpecResolver == InitResolver /\ [][NextResolver]_vars

SpecSlug == InitSlug /\ [][NextSlug]_vars

SpecColumns == InitColumns /\ [][NextColumns]_vars

SpecSessions == Init /\ [][NextSessions]_vars

SpecWatcher == Init /\ [][NextWatcher]_vars

SpecWatch == InitWatch /\ [][NextWatch]_vars

SpecChecks == InitChecks /\ [][NextChecks]_vars
SpecWorktreesLookups == Init /\ [][NextWorktreesLookups]_vars
SpecWorktreesSticky == Init /\ [][NextWorktreesSticky]_vars
SpecWorktreesTasks == Init /\ [][NextWorktreesTasks]_vars
SpecSessionsHistory == Init /\ [][NextSessionsHistory]_vars
SpecWatchTracked == InitWatch /\ [][NextWatchTracked]_vars

(***************************************************************************)
(* Properties of WorktreesState.                                           *)
(***************************************************************************)
Range(f) == { f[x] : x \in DOMAIN f }

WorktreeBranches == { worktrees[i].branch : i \in DOMAIN worktrees }

\* whole seconds since the no-PR cache entry of b was written
EntryAge(b) == (now - no_pr_cache[b]) \div TicksPerSec
\* whole seconds since the most recent mark_no_pr(b)
MarkAge(b) == (now - lastMark[b]) \div TicksPerSec

YoungEntry(b) == b \in DOMAIN no_pr_cache /\ EntryAge(b) < NO_PR_CACHE_TTL_SECS
YoungMark(b) == b \in DOMAIN lastMark /\ MarkAge(b) < NO_PR_CACHE_TTL_SECS

\* C1: no branch is at once a key of branch_prs and a key of the no-PR cache.
C1_MutuallyExclusive == (DOMAIN branch_prs) \cap (DOMAIN no_pr_cache) = {}

\* C2 as stated: branches_needing_pr_lookup never returns a key of branch_prs
\* nor a branch whose most recent mark_no_pr is less than 120 seconds old.
C2_NeverRecentlyMarked ==
    \A b \in Range(branches_needing_pr_lookup) :
        b \notin DOMAIN branch_prs /\ ~YoungMark(b)

\* C2 amended: branches_needing_pr_lookup never returns a key of branch_prs nor
\* a branch that has a no-PR cache entry younger than 120 seconds.
C2_NeverYoungEntry ==
    \A b \in Range(branches_needing_pr_lookup) :
        b \notin DOMAIN branch_prs /\ ~YoungEntry(b)

C2_Witness ==
    /\ \E b \in WorktreeBranches : b \in DOMAIN branch_prs
    /\ \E b \in WorktreeBranches : b \notin DOMAIN branch_prs /\ YoungEntry(b)
    /\ branches_needing_pr_lookup = <<>>

\* C3: branches_needing_pr_lookup returns every worktree branch that is not a
\* key of branch_prs and has no no-PR mark (cache entry) younger than 120
\* seconds; an entry that has reached 120 seconds no longer holds its branch
\* back, although no cleanup removed it.
C3_ReturnsEveryEligible ==
    /\ \A b \in WorktreeBranches :
         (b \notin DOMAIN branch_prs /\ ~YoungEntry(b))
             => b \in Range(branches_needing_pr_lookup)
    /\ \A b \in WorktreeBranches :
         (b \notin DOMAIN branch_prs /\ ~YoungMark(b))
             => b \in Range(branches_needing_pr_lookup)

C3_Witness ==
    \E b \in WorktreeBranches :
        /\ b \notin DOMAIN branch_prs
        /\ b \in DOMAIN no_pr_cache
        /\ EntryAge(b) = NO_PR_CACHE_TTL_SECS
        /\ b \in Range(branches_needing_pr_lookup)

SameEntry(m1, m2, k) ==
    /\ k \in DOMAIN m1 <=> k \in DOMAIN m2
    /\ k \in DOMAIN m1 => m1[k] = m2[k]

\* C4: a step set_branch_pr(b, info) ends with branch_prs mapping b to info
\* and b out of the no-PR cache; the entries of every other branch, in both
\* maps, are as before.
C4_SetBranchPrPost ==
    [][ \A b \in Branches, i \in PrInfos :
          set_branch_pr(b, i) =>
              /\ b \in DOMAIN branch_prs' /\ branch_prs'[b] = i
              /\ b \notin DOMAIN no_pr_cache'
              /\ \A o \in Branches \ {b} :
                   /\ SameEntry(branch_prs, branch_prs', o)
                   /\ SameEntry(no_pr_cache, no_pr_cache', o) ]_vars

C4_Witness ==
    /\ wtCall.op = "set_branch_pr"
    /\ wtCall.cached
    /\ wtCall.branch \in DOMAIN branch_prs
    /\ wtCall.branch \notin DOMAIN no_pr_cache
    /\ \E o \in Branches \ {wtCall.branch} :
         o \in DOMAIN no_pr_cache /\ o \notin DOMAIN branch_prs

(***************************************************************************)
(* Properties of ClaudeActivityTracker.                                    *)
(***************************************************************************)
ActivityStates == {"Unknown", "Idle", "Thinking", "WaitingForUser"}

\* whole seconds between a recorded instant and a later clock reading
SecsBetween(instant, t) == (t - instant) \div TicksPerSec

\* whole seconds since the update recorded for working directory d
SinceUpdate(d) == SecsBetween(last_update_times[d], now)

\* the age of a status file's timestamp at wall-clock reading systime
AgeOf(status, systime) ==
    LET secs == IF systime < 0 THEN 0 ELSE systime \div TicksPerSec
    IN  IF status.timestamp > secs THEN 0 ELSE secs - status.timestamp

\* C5: with an update recorded for the record's working_dir and e whole
\* seconds elapsed since, determine_state gives Thinking for e < 5,
\* WaitingForUser for 5 <= e < 120 and Idle for e >= 120.
C5_EventThresholds ==
    \A status \in ClaudeStatusFile, t \in SysTimes :
        status.working_dir \in DOMAIN last_update_times =>
            LET e == SinceUpdate(status.working_dir)
                st == determine_state(status, t).state
            IN  /\ e < THINKING_THRESHOLD_SECS => st = "Thinking"
                /\ (THINKING_THRESHOLD_SECS <= e /\ e < WAITING_THRESHOLD_SECS)
                       => st = "WaitingForUser"
                /\ e >= WAITING_THRESHOLD_SECS => st = "Idle"

C5_Witness ==
    /\ trCall.op = "get_activity_for_session"
    /\ trCall.path = "event"
    /\ SinceUpdate(trCall.dir) = THINKING_THRESHOLD_SECS
    /\ result.state = "WaitingForUser"

\* C6: with no update ever recorded for the record's working_dir and a the
\* saturating age of its timestamp, determine_state gives WaitingForUser for
\* a < 120 and Idle for a >= 120, never Thinking; a timestamp in the future
\* gives WaitingForUser.
C6_FallbackThresholds ==
    \A status \in ClaudeStatusFile, t \in SysTimes :
        status.working_dir \notin DOMAIN last_update_times =>
            LET a == AgeOf(status, t)
                st == determine_state(status, t).state
            IN  /\ a < WAITING_THRESHOLD_SECS => st = "WaitingForUser"
                /\ a >= WAITING_THRESHOLD_SECS => st = "Idle"
                /\ st # "Thinking"
                /\ (t >= 0 /\ status.timestamp > t \div TicksPerSec) => st = "WaitingForUser"

\* the record of Dir1 is stamped EpochBase: it is Idle only at the clock reading
\* exactly 120 seconds later
C6_Witness ==
    /\ trCall.op = "get_activity_for_session"
    /\ trCall.path = "timestamp"
    /\ trCall.dir = Dir1
    /\ trCall.dir \notin DOMAIN last_update_times
    /\ result.state = "Idle"

\* C7: once an update is recorded for a working directory it stays recorded,
\* and from then on two records for it that differ only in timestamp, read at
\* any wall-clock times, classify the same: by the time since that update.
C7_TimestampOnlyBeforeFirstUpdate ==
    /\ [](\A s1, s2 \in ClaudeStatusFile, t1, t2 \in SysTimes :
            (/\ s1.working_dir \in DOMAIN last_update_times
             /\ s2.working_dir = s1.working_dir
             /\ s2.used_percentage = s1.used_percentage)
                => determine_state(s1, t1) = determine_state(s2, t2))
    /\ [][(DOMAIN last_update_times) \subseteq (DOMAIN last_update_times')]_vars

\* the record of Dir2 is stamped at the epoch, stale at every clock reading at
\* or after it, and classifies Thinking all the same
C7_Witness ==
    /\ trCall.op = "get_activity_for_session"
    /\ trCall.path = "event"
    /\ trCall.dir = Dir2
    /\ result.state = "Thinking"
    /\ \E t \in SysTimes :
         FallbackState(AgeOf(SomeStatus(Dir2, "None", 0), t)) = "Idle"

\* C8: the context_percentage determine_state returns is the record's
\* used_percentage, None included, whichever state it computes.
C8_ContextPercentage ==
    \A status \in ClaudeStatusFile, t \in SysTimes :
        determine_state(status, t).context_percentage = status.used_percentage

C8_Witness ==
    /\ trCall.op = "get_activity_for_session"
    /\ result.state = "Idle"
    /\ result.context_percentage = "Some(75.5)"

\* C9: after record_update(d), however many calls preceded it, d classifies at
\* every later instant as after a single record_update(d) made at the time of
\* this call, and the entries of the other working directories are as before.
C9_RecordUpdateLatestOnly ==
    [][ \A d \in WorkingDirs :
          record_update(d) =>
              /\ d \in DOMAIN last_update_times'
              /\ \A t \in TimePoints :
                   t >= now =>
                       EventState(SecsBetween(last_update_times'[d], t))
                           = EventState(SecsBetween(now, t))
              /\ \A o \in WorkingDirs \ {d} :
                   SameEntry(last_update_times, last_update_times', o) ]_vars

C9_Witness ==
    /\ trCall.op = "record_update"
    /\ updRun.n = 2
    /\ updRun.dir = trCall.dir
    /\ \E o \in WorkingDirs \ {trCall.dir} :
         o \in DOMAIN last_update_times /\ last_update_times[o] < now

\* a listed entry that can be read and parsed, has the json extension, and
\* whose working_dir matches the session name
MatchingRecord(session_name, f) ==
    /\ f.entry_ok /\ f.ext = "json" /\ f.readable /\ f.parses
    /\ session_matches_working_dir(session_name, f.status.working_dir)

\* C10: get_activity_for_session returns (Unknown, None) whenever the state
\* directory is unreadable or holds no matching record; it always returns an
\* activity result, and it leaves the update-time map as it was.
C10_UnknownWhenNoRecord ==
    /\ [](\A s \in SessionNames, dir \in StateDirs, t \in SysTimes :
            LET r == get_activity_for_session_result(s, dir, t)
            IN  /\ r.state \in ActivityStates
                /\ r.context_percentage \in Percentages
                /\ (~dir.readable
                      \/ ~\E i \in DOMAIN dir.entries : MatchingRecord(s, dir.entries[i]))
                       => r = [state |-> "Unknown", context_percentage |-> "None"])
    /\ [][trCall'.op = "get_activity_for_session"
             => last_update_times' = last_update_times]_vars

C10_Witness ==
    /\ trCall.op = "get_activity_for_session"
    /\ trCall.path = "all_skipped"
    /\ result = [state |-> "Unknown", context_percentage |-> "None"]
    /\ DOMAIN last_update_times = WorkingDirs

\* C11: whenever the state directory holds a record that can be read and
\* parsed and matches the session name, get_activity_for_session returns
\* determine_state of such a record, never Unknown, whatever unreadable or
\* unparseable files the directory lists beside it.
C11_BadFilesSkipped ==
    \A s \in SessionNames, dir \in StateDirs, t \in SysTimes :
        LET matching == {i \in DOMAIN dir.entries : MatchingRecord(s, dir.entries[i])}
            r == get_activity_for_session_result(s, dir, t)
        IN  (dir.readable /\ matching # {}) =>
                /\ r.state # "Unknown"
                /\ \E i \in matching : r = determine_state(dir.entries[i].status, t)

C11_Witness ==
    /\ trCall.op = "get_activity_for_session"
    /\ trCall.skipped
    /\ trCall.path \in {"event", "timestamp"}
    /\ result.state \in ActivityStates \ {"Unknown"}

\* C12: update_from_file on a file that cannot be read or parsed returns
\* nothing and leaves the update-time map unchanged; on a parseable file the
\* map afterwards holds the instant of the call for the record's working_dir
\* (and the other entries as before), and the result is the classification
\* on that updated map: Thinking, with the record's used_percentage.
C12_UpdateFromFile ==
    [][ \A f \in Files, t \in SysTimes :
          update_from_file(f, t) =>
              IF f.readable /\ f.parses
              THEN /\ f.status.working_dir \in DOMAIN last_update_times'
                   /\ last_update_times'[f.status.working_dir] = now
                   /\ \A o \in WorkingDirs \ {f.status.working_dir} :
                        SameEntry(last_update_times, last_update_times', o)
                   /\ result' = [state |-> "Thinking",
                                 context_percentage |-> f.status.used_percentage]
              ELSE /\ result' = NoResult
                   /\ last_update_times' = last_update_times ]_vars

\* a first update for a working directory whose record is stamped long ago
C12_Witness ==
    /\ trCall.op = "update_from_file"
    /\ trCall.path = "recorded_first"
    /\ trCall.dir = Dir2
    /\ last_update_times[Dir2] = now
    /\ now > 0
    /\ result.state = "Thinking"

(***************************************************************************)
(* Properties of session_matches_working_dir.                              *)
(***************************************************************************)
\* the letter a character stands for, whatever its case
Letter(c) ==
    CASE c \in {"a", "A"} -> "A"
      [] c \in {"b", "B"} -> "B"
      [] c \in {"x", "X"} -> "X"
      [] OTHER -> c

SameIgnoringCase(s1, s2) ==
    /\ Len(s1) = Len(s2)
    /\ \A i \in 1..Len(s1) : Letter(s1[i]) = Letter(s2[i])

\* the text after position k of dir is its final '/'-separated segment
FinalSegmentFrom(dir, k) ==
    /\ k = 0 \/ dir[k] = "/"
    /\ \A i \in (k + 1)..Len(dir) : dir[i] # "/"

FinalSegmentIs(dir, s) ==
    \E k \in 0..Len(dir) :
        FinalSegmentFrom(dir, k) /\ SameIgnoringCase(SubSeq(dir, k + 1, Len(dir)), s)

ContainsIgnoringCase(dir, s) ==
    \E k \in 0..(Len(dir) - Len(s)) :
        SameIgnoringCase(SubSeq(dir, k + 1, k + Len(s)), s)

\* C13: session_matches_working_dir(session_name, working_dir) is true exactly
\* when, ignoring case, the final '/'-separated segment of working_dir equals
\* session_name or working_dir contains session_name; otherwise it is false.
C13_MatchesExactlyWhen ==
    outMatch # None =>
        outMatch[1] = (FinalSegmentIs(inDir, inSession)
                          \/ ContainsIgnoringCase(inDir, inSession))

\* a match that only the case-insensitive search of the whole path finds
C13_Witness ==
    /\ inSession = <<"A", "b">>
    /\ inDir = <<"a", "b", "/", "b">>
    /\ outMatch = Some(TRUE)

(***************************************************************************)
(* Properties of the task status resolver.                                 *)
(***************************************************************************)
\* the last call was effective_status_with_pr, and what it returned
WithPr == rsCall = "effective_status_with_pr"
Resolved == outStatus[1]

NoLivePr == inBranchPr = None
NoPrSignal == inBranchPr = None /\ inTask.pr_status = None

\* C14: with live PR info, effective_status_with_pr returns Done for MERGED,
\* Cancelled for CLOSED, Inreview for OPEN and not draft, and Inprogress for
\* OPEN, draft and has_worktree, whatever the task's local status, stored PR
\* fields and issue status.
C14_LivePrDecides ==
    (WithPr /\ inBranchPr # None) =>
        LET pr == inBranchPr[1]
        IN  /\ pr.state = "MERGED" => Resolved = "Done"
            /\ pr.state = "CLOSED" => Resolved = "Cancelled"
            /\ (pr.state = "OPEN" /\ ~pr.is_draft) => Resolved = "Inreview"
            /\ (pr.state = "OPEN" /\ pr.is_draft /\ inHasWorktree)
                   => Resolved = "Inprogress"

\* every other signal points elsewhere
C14_Witness ==
    /\ WithPr
    /\ inBranchPr = Some([state |-> "OPEN", is_draft |-> TRUE])
    /\ inHasWorktree
    /\ inTask = [status |-> "Backlog", pr_status |-> Some("merged"), pr_is_draft |-> None]
    /\ inLinearStatus = Some([state_type |-> "canceled"])
    /\ Resolved = "Inprogress"

\* C15: the stored PR fields are consulted only when no live PR info is
\* supplied: with live PR info, decisive or not, effective_status_with_pr
\* returns the same status for every value of the task's stored pr_status and
\* pr_is_draft.
C15_StoredPrOnlyWithoutLivePr ==
    (WithPr /\ inBranchPr # None) =>
        \A t \in Task :
            t.status = inTask.status =>
                effective_status_with_pr(t, inBranchPr, inHasWorktree, inLinearStatus)
                    = Resolved

\* the stored PR status decides
StoredDecides(t) ==
    /\ t.pr_status # None
    /\ \/ t.pr_status[1] \in {"merged", "closed"}
       \/ t.pr_status[1] = "open" /\ t.pr_is_draft # Some(TRUE)

\* the status the rules after the PR rules give: issue terminal state, then
\* worktree presence, then the non-terminal issue mapping, then local status
LaterRules ==
    IF inLinearStatus # None /\ inLinearStatus[1].state_type = "completed" THEN "Done"
    ELSE IF inLinearStatus # None /\ inLinearStatus[1].state_type = "canceled"
    THEN "Cancelled"
    ELSE IF inHasWorktree THEN "Inprogress"
    ELSE IF inLinearStatus # None
    THEN from_linear_state_type(inLinearStatus[1].state_type)
    ELSE inTask.status

\* C16: with no live PR info and a stored pr_status that decides nothing (not
\* merged, not closed, not open-and-not-draft), effective_status_with_pr
\* returns what the later rules give: Done or Cancelled for a completed or
\* canceled issue, else Inprogress when a worktree exists, else the
\* non-terminal issue mapping, else the local status.
C16_UndecidedStoredPrFallsThrough ==
    (WithPr /\ NoLivePr /\ inTask.pr_status # None /\ ~StoredDecides(inTask))
        => Resolved = LaterRules

\* C17: with no live PR info, a stored pr_status of merged resolves to Done,
\* closed to Cancelled, and open with pr_is_draft false or unset to Inreview,
\* whatever the local status, worktree presence and issue status; and
\* effective_status with stored open and draft returns the local status.
C17_StoredPrDecides ==
    /\ (rsCall = "effective_status" \/ (WithPr /\ NoLivePr)) =>
          /\ inTask.pr_status = Some("merged") => Resolved = "Done"
          /\ inTask.pr_status = Some("closed") => Resolved = "Cancelled"
          /\ (inTask.pr_status = Some("open") /\ inTask.pr_is_draft \in {None, Some(FALSE)})
                 => Resolved = "Inreview"
    /\ (rsCall = "effective_status" /\ inTask.pr_status = Some("open")
            /\ inTask.pr_is_draft = Some(TRUE))
          => Resolved = inTask.status

C17_Witness ==
    /\ WithPr
    /\ NoLivePr
    /\ inTask = [status |-> "Backlog", pr_status |-> Some("open"), pr_is_draft |-> None]
    /\ inHasWorktree
    /\ inLinearStatus = Some([state_type |-> "completed"])
    /\ Resolved = "Inreview"

\* C18: with no live PR and no stored pr_status, an issue status of completed
\* resolves to Done and canceled to Cancelled, with or without a worktree.
C18_IssueTerminalWins ==
    (WithPr /\ NoPrSignal /\ inLinearStatus # None) =>
        /\ inLinearStatus[1].state_type = "completed" => Resolved = "Done"
        /\ inLinearStatus[1].state_type = "canceled" => Resolved = "Cancelled"

C18_Witness ==
    /\ WithPr
    /\ NoPrSignal
    /\ inHasWorktree
    /\ inTask.status = "Inprogress"
    /\ inLinearStatus = Some([state_type |-> "canceled"])
    /\ Resolved = "Cancelled"

\* C19: with no live PR and no stored pr_status, and an issue status that is
\* absent or backlog, unstarted or started, an existing worktree resolves to
\* Inprogress, whatever the issue state and the local status.
C19_WorktreeMeansInprogress ==
    (/\ WithPr /\ NoPrSignal /\ inHasWorktree
     /\ \/ inLinearStatus = None
        \/ inLinearStatus[1].state_type \in {"backlog", "unstarted", "started"})
        => Resolved = "Inprogress"

C19_Witness ==
    /\ WithPr
    /\ NoPrSignal
    /\ inHasWorktree
    /\ inTask.status = "Done"
    /\ inLinearStatus = Some([state_type |-> "backlog"])
    /\ Resolved = "Inprogress"

\* C20 as stated: with no live PR, no stored pr_status and no worktree, an
\* issue status maps backlog to Backlog, unstarted to Todo, started to
\* Inprogress, and every state_type other than backlog, unstarted, started,
\* completed and canceled to Backlog, whatever the local status.
C20_OtherStateTypesBacklog ==
    (WithPr /\ NoPrSignal /\ ~inHasWorktree /\ inLinearStatus # None) =>
        LET st == inLinearStatus[1].state_type
        IN  /\ st = "backlog" => Resolved = "Backlog"
            /\ st = "unstarted" => Resolved = "Todo"
            /\ st = "started" => Resolved = "Inprogress"
            /\ st \notin {"backlog", "unstarted", "started", "completed", "canceled"}
                   => Resolved = "Backlog"

\* C20 amended: as stated, except that the state_type cancelled resolves to
\* Cancelled; every state_type other than backlog, unstarted, started,
\* completed, canceled and cancelled resolves to Backlog.
C20_OtherStateTypesButCancelled ==
    (WithPr /\ NoPrSignal /\ ~inHasWorktree /\ inLinearStatus # None) =>
        LET st == inLinearStatus[1].state_type
        IN  /\ st = "backlog" => Resolved = "Backlog"
            /\ st = "unstarted" => Resolved = "Todo"
            /\ st = "started" => Resolved = "Inprogress"
            /\ st = "cancelled" => Resolved = "Cancelled"
            /\ st \notin {"backlog", "unstarted", "started", "completed", "canceled",
                           "cancelled"}
                   => Resolved = "Backlog"

C20_Witness ==
    /\ WithPr
    /\ NoPrSignal
    /\ ~inHasWorktree
    /\ inTask.status = "Done"
    /\ inLinearStatus = Some([state_type |-> "triage"])
    /\ Resolved = "Backlog"

\* C21: with no live PR, no stored pr_status, no issue status and no worktree,
\* effective_status_with_pr returns the task's local status, for each of the
\* six statuses.
C21_FallbackLocalStatus ==
    (WithPr /\ NoPrSignal /\ inLinearStatus = None /\ ~inHasWorktree)
        => Resolved = inTask.status

C21_Witness ==
    /\ WithPr
    /\ NoPrSignal
    /\ inLinearStatus = None
    /\ ~inHasWorktree
    /\ inTask.status = "Inreview"
    /\ Resolved = "Inreview"

(***************************************************************************)
(* Properties of task_title_to_branch.                                     *)
(***************************************************************************)
\* a character that is neither a letter nor a digit
Separator(c) == c \in {" ", "-", "#", "/"}

SmallLetter(c) ==
    CASE c \in {"a", "A"} -> "a"
      [] c \in {"b", "B"} -> "b"
      [] c \in {"x", "X"} -> "x"
      [] OTHER -> c

\* the letters and digits of title from position i on, lower-cased, with one
\* hyphen wherever a run of separators lies between two of them
RECURSIVE Collapsed(_, _, _, _)
Collapsed(title, i, gap, started) ==
    IF i > Len(title) THEN <<>>
    ELSE IF Separator(title[i]) THEN Collapsed(title, i + 1, TRUE, started)
    ELSE (IF gap /\ started THEN <<"-">> ELSE <<>>)
             \o <<SmallLetter(title[i])>> \o Collapsed(title, i + 1, FALSE, TRUE)

\* the slug in what task_title_to_branch returned: what follows "<id>/"
ReturnedSlug ==
    IF inLinearId = None THEN outBranch[1]
    ELSE SubSeq(outBranch[1], Len(inLinearId[1]) + 2, Len(outBranch[1]))

\* C29: the slug task_title_to_branch builds is the lower-cased title with
\* every run of non-alphanumeric characters turned into one hyphen and no
\* hyphen at either end: it never starts or ends with a hyphen and never has
\* two hyphens in a row; with an issue id the result is the id unchanged, a
\* slash, then that slug; and the function without id maps the slug to itself.
C29_SlugShape ==
    outBranch # None =>
        /\ ReturnedSlug = Collapsed(inTitle, 1, FALSE, FALSE)
        /\ ReturnedSlug # <<>> =>
              ReturnedSlug[1] # "-" /\ ReturnedSlug[Len(ReturnedSlug)] # "-"
        /\ \A i \in 1..(Len(ReturnedSlug) - 1) :
              ~(ReturnedSlug[i] = "-" /\ ReturnedSlug[i + 1] = "-")
        /\ inLinearId # None =>
              outBranch[1] = inLinearId[1] \o <<"/">> \o ReturnedSlug
        /\ task_title_to_branch(ReturnedSlug, None) = ReturnedSlug

\* a title with a run of two separators, under an issue id
C29_Witness ==
    /\ inTitle = <<"B", " ", "#", "1">>
    /\ inLinearId = Some(IssueId)
    /\ outBranch = Some(<<"X", "-", "1", "/", "b", "-", "1">>)

(***************************************************************************)
(* Properties of the board columns.                                        *)
(***************************************************************************)
\* C22: the column placement is a function of the task list, the PR map, the
\* worktree list and the issue-status map: what a call of
\* tasks_in_column_with_prs returned is what it returns for the same
\* arguments whatever the order in which the PR map is iterated, also when
\* more than one PR branch matches the slug of a task.
C22_PlacementDeterministic ==
    outTasks # None =>
        \A order \in IterationOrders(inBranchPrs) :
            tasks_in_column_with_prs(colCall.status, inBranchPrs, order,
                                     inWorktrees, inLinearStatuses) = outTasks[1]

\* the slug of a title the fallback compares: lower case, hyphens for spaces
TitleSlug(title) ==
    [i \in DOMAIN title |-> IF title[i] = " " THEN "-" ELSE SmallLetter(title[i])]

ContainOneAnother(s1, s2) ==
    ContainsIgnoringCase(s1, s2) \/ ContainsIgnoringCase(s2, s1)

\* the worktrees that match a task: branch equal to the derived branch, or
\* one containing the other ignoring case
MatchingWorktrees(t) ==
    { i \in DOMAIN inWorktrees :
        \/ inWorktrees[i].branch = expected_branch(t)
        \/ ContainOneAnother(inWorktrees[i].branch, expected_branch(t)) }

\* the keys of the PR map the substring fallback can find for a task
FallbackKeys(t) ==
    { k \in DOMAIN inBranchPrs : ContainOneAnother(k, TitleSlug(t.title)) }

\* the search filter does not hide the task
Shown(t) ==
    \/ search_filter = <<>>
    \/ ContainsIgnoringCase(t.title, search_filter)
    \/ t.description # None /\ ContainsIgnoringCase(t.description[1], search_filter)

Returned(t) == \E i \in DOMAIN outTasks[1] : outTasks[1][i] = t

\* C23: a task with no matching worktree and no PR keyed by its derived
\* branch, whose only PR is one found by the slug substring fallback and is
\* MERGED, is in the Done column and not in the In Progress column, whatever
\* its local status: its column is that of Done under every iteration order,
\* a call for In Progress never returns it, and a call for Done returns it
\* unless the search filter hides it.
C23_MergedBySlugIsDone ==
    \A n \in DOMAIN tasks :
        LET t == tasks[n]
        IN  ( /\ MatchingWorktrees(t) = {}
              /\ expected_branch(t) \notin DOMAIN inBranchPrs
              /\ Cardinality(FallbackKeys(t)) = 1
              /\ \A k \in FallbackKeys(t) : inBranchPrs[k].state = "MERGED" )
            => /\ \A order \in IterationOrders(inBranchPrs) :
                    task_column(t, inBranchPrs, order, inWorktrees, inLinearStatuses)
                        = column_index("Done")
               /\ outTasks # None /\ colCall.status = "Inprogress" => ~Returned(t)
               /\ outTasks # None /\ colCall.status = "Done" /\ Shown(t) => Returned(t)

\* a Done call returned a task whose local status is Backlog because of a
\* MERGED PR that only the fallback finds, next to a PR that matches nothing
C23_Witness ==
    /\ outTasks # None
    /\ colCall.status = "Done"
    /\ \E n \in DOMAIN tasks :
        /\ tasks[n].status = "Backlog"
        /\ tasks[n].linear_issue_id # None
        /\ MatchingWorktrees(tasks[n]) = {}
        /\ expected_branch(tasks[n]) \notin DOMAIN inBranchPrs
        /\ FallbackKeys(tasks[n]) = {<<"b">>}
        /\ inBranchPrs[<<"b">>].state = "MERGED"
        /\ Cardinality(DOMAIN inBranchPrs) = 2
        /\ Returned(tasks[n])

\* the first worktree that matches a task, if any
MatchedWorktree(t) ==
    inWorktrees[CHOOSE i \in MatchingWorktrees(t) : \A j \in MatchingWorktrees(t) : i <= j]

\* the PRs the stated lookup order allows for a task: the one keyed by the
\* matched worktree's branch; if none, the one keyed by the derived branch;
\* if none, one whose branch and the title slug contain one another; else none
AllowedPrs(t) ==
    IF MatchingWorktrees(t) # {} /\ MatchedWorktree(t).branch \in DOMAIN inBranchPrs
        THEN { Some(inBranchPrs[MatchedWorktree(t).branch]) }
    ELSE IF expected_branch(t) \in DOMAIN inBranchPrs
        THEN { Some(inBranchPrs[expected_branch(t)]) }
    ELSE IF FallbackKeys(t) # {}
        THEN { Some(inBranchPrs[k]) : k \in FallbackKeys(t) }
    ELSE { None }

\* the column a task has when pr is the PR found for it
ColumnWith(t, pr) ==
    column_index(effective_status_with_pr(
        t, pr, MatchingWorktrees(t) # {}, linear_status(t, inLinearStatuses)))

\* C24: the PR used for a task is the first hit in a fixed order: the PR
\* keyed by the matched worktree's branch; if none, the PR keyed by the
\* derived branch; if none, a PR whose branch and the title slug contain one
\* another; a later source is never used when an earlier one has a PR.  The
\* lookup of the last call found such a PR for every task, and the call
\* returned a task only in a column such a PR gives it, and returned every
\* task the search filter shows whose column is the called one with all
\* such PRs.
C24_LookupOrder ==
    outTasks # None =>
        \A n \in DOMAIN tasks :
            LET t == tasks[n]
            IN  /\ branch_pr(t, inBranchPrs, colCall.order, inWorktrees) \in AllowedPrs(t)
                /\ Returned(t) =>
                       \E pr \in AllowedPrs(t) : ColumnWith(t, pr) = column_index(colCall.status)
                /\ ( /\ Shown(t)
                     /\ \A pr \in AllowedPrs(t) : ColumnWith(t, pr) = column_index(colCall.status) )
                   => Returned(t)

\* a call returned for In Review a task whose matched worktree has an OPEN
\* PR although the derived branch has a MERGED PR of its own
C24_Witness ==
    /\ outTasks # None
    /\ colCall.status = "Inreview"
    /\ \E n \in DOMAIN tasks :
        /\ MatchingWorktrees(tasks[n]) # {}
        /\ MatchedWorktree(tasks[n]).branch \in DOMAIN inBranchPrs
        /\ inBranchPrs[MatchedWorktree(tasks[n]).branch].state = "OPEN"
        /\ expected_branch(tasks[n]) \in DOMAIN inBranchPrs
        /\ expected_branch(tasks[n]) # MatchedWorktree(tasks[n]).branch
        /\ inBranchPrs[expected_branch(tasks[n])].state = "MERGED"
        /\ Returned(tasks[n])

(***************************************************************************)
(* Properties of SessionsState.                                            *)
(***************************************************************************)
\* the stored sessions that have the name of s, by position
SameName(s) == { j \in DOMAIN sessions : sessions[j].name = s.name }

\* C25: after set_sessions(new_list) the stored list is new_list in the same
\* order, and each entry carries the activity state and the context
\* percentage of the previously stored session with the same name (the first
\* one in the list) if one existed, and Unknown and None otherwise.
C25_SetSessionsCarriesActivity ==
    [][ ssCall'.op = "set_sessions" =>
          LET new_list == ssCall'.new_sessions
          IN  /\ Len(sessions') = Len(new_list)
              /\ \A i \in DOMAIN new_list :
                    /\ sessions'[i].name = new_list[i].name
                    /\ sessions'[i].is_current = new_list[i].is_current
                    /\ sessions'[i].is_dead = new_list[i].is_dead
                    /\ sessions'[i].needs_attention = new_list[i].needs_attention
                    /\ IF SameName(new_list[i]) # {}
                         THEN LET j == CHOOSE j \in SameName(new_list[i]) :
                                           \A k \in SameName(new_list[i]) : j <= k
                              IN  /\ sessions'[i].claude_activity = sessions[j].claude_activity
                                  /\ sessions'[i].context_percentage
                                         = sessions[j].context_percentage
                         ELSE /\ sessions'[i].claude_activity = "Unknown"
                              /\ sessions'[i].context_percentage = "None"
      ]_vars

\* a set_sessions stored a list whose first entry carries Thinking and 10.0
\* from the earlier list and whose second entry, of another name, Unknown
C25_Witness ==
    /\ ssCall.op = "set_sessions"
    /\ Len(sessions) = 2
    /\ sessions[1].name = <<"x">>
    /\ sessions[1].claude_activity = "Thinking"
    /\ sessions[1].context_percentage = "Some(10.0)"
    /\ sessions[2].name = <<"A", "B">>
    /\ sessions[2].claude_activity = "Unknown"

(***************************************************************************)
(* Properties of applying lookup results.                                  *)
(***************************************************************************)
IsPr(res) == res # "no_pr"

\* the PR map after the applied results: each PR found is stored under its
\* branch, the rest is as before
ExpectedPrs ==
    [ c \in (DOMAIN applied.prs0)
              \cup { b \in DOMAIN applied.results : IsPr(applied.results[b]) } |->
        IF c \in DOMAIN applied.results /\ IsPr(applied.results[c])
            THEN applied.results[c] ELSE applied.prs0[c] ]

\* the branches marked as without PR after the applied results
ExpectedNoPr ==
    (applied.keys0 \ { b \in DOMAIN applied.results : IsPr(applied.results[b]) })
        \cup { b \in DOMAIN applied.results : ~IsPr(applied.results[b]) }

\* the order of application is not in the history: nothing depends on it
OrderFree ==
    /\ branch_prs = ExpectedPrs
    /\ DOMAIN no_pr_cache = ExpectedNoPr

\* a step that applied a result for branch b left every other branch as it was
OwnBranchOnly ==
    \A b \in Branches :
        wtCall'.op \in {"set_branch_pr", "mark_no_pr"} /\ wtCall'.branch = b =>
            \A c \in Branches \ {b} :
                /\ (c \in DOMAIN branch_prs') = (c \in DOMAIN branch_prs)
                /\ c \in DOMAIN branch_prs => branch_prs'[c] = branch_prs[c]
                /\ (c \in DOMAIN no_pr_cache') = (c \in DOMAIN no_pr_cache)
                /\ c \in DOMAIN no_pr_cache => no_pr_cache'[c] = no_pr_cache[c]

\* C26: results of PR lookups for distinct branches can be applied in any
\* order: after set_branch_pr or mark_no_pr has been applied for distinct
\* branches, branch_prs (keys and values) and the set of branches in the
\* no-PR cache are those the results give whatever the order of application,
\* and each application affects only its own branch.
C26_LookupResultsCommute == []OrderFree /\ [][OwnBranchOnly]_vars

\* a mark_no_pr for a was applied after a set_branch_pr for b replaced the
\* PR of b, with a marked before and a PR stored for a
C26_Witness ==
    /\ DOMAIN applied.results = {"a", "b"}
    /\ applied.results["a"] = "no_pr"
    /\ applied.results["b"] = "MERGED"
    /\ wtCall.op = "mark_no_pr"
    /\ applied.prs0 = [c \in {"a", "b"} |-> "OPEN"]
    /\ applied.keys0 = {"a"}
    /\ branch_prs["b"] = "MERGED"
    /\ "a" \in DOMAIN no_pr_cache

(***************************************************************************)
(* Properties of the file watcher.                                         *)
(***************************************************************************)
JsonPath(path) == path.extension = Some("json")

\* every queued message is a .json path of a Create or Modify event, and the
\* queue never holds more than its capacity
OnlyJsonOfCreateOrModify ==
    /\ Len(queue) <= QueueCap
    /\ \A i \in DOMAIN queue :
        JsonPath(queue[i].path) /\ queue[i].kind \in {"Create", "Modify"}

\* the callback can always take its next turn, whatever the queue holds
NeverBlocked == callback.paths # <<>> => ENABLED WatcherForward

\* a turn of the callback appends its path if it is a .json path and the
\* queue has room, leaves the queue alone otherwise, and moves on
ForwardOrDrop ==
    callback.paths # <<>> /\ callback'.paths = Tail(callback.paths) =>
        queue' = IF JsonPath(Head(callback.paths)) /\ Len(queue) < QueueCap
                     THEN queue \o << [path |-> Head(callback.paths), kind |-> callback.kind] >>
                     ELSE queue

\* a result that is an error or an event of another kind reaches no path
OtherEventsIgnored ==
    lastEvent' # lastEvent /\ lastEvent'.kind \notin {"Create", "Modify"} =>
        callback'.paths = <<>> /\ queue' = queue

\* C27: the file watcher forwards to the queue only paths with a .json
\* extension from Create or Modify events, with a non-blocking send: when
\* the queue is full the notification is dropped and the callback goes on and
\* returns, so the watcher never blocks on the control thread.
C27_WatcherForwardsWithoutBlocking ==
    /\ [](OnlyJsonOfCreateOrModify /\ NeverBlocked)
    /\ [][ForwardOrDrop /\ OtherEventsIgnored]_vars

\* the callback has returned from a Modify event of which a .json path was
\* dropped: the queue is full of the paths of a Create event
C27_Witness ==
    /\ Len(queue) = QueueCap
    /\ \A i \in DOMAIN queue : queue[i].kind = "Create"
    /\ lastEvent = [kind |-> "Modify", dropped |-> TRUE]
    /\ callback.paths = <<>>

(***************************************************************************)
(* Properties of the no-PR cache cleanup.                                  *)
(***************************************************************************)
\* C28: cleanup_no_pr_cache removes exactly the no-PR entries that are 120
\* seconds old or older and keeps all younger ones as they are; it leaves
\* branch_prs and the worktree list unchanged, and branches_needing_pr_lookup
\* returns the same branches right before and right after the cleanup.
C28_CleanupRemovesExpiredOnly ==
    [][ CallCleanupNoPrCacheTracked =>
          /\ DOMAIN no_pr_cache' = { b \in DOMAIN no_pr_cache :
                                       EntryAge(b) < NO_PR_CACHE_TTL_SECS }
          /\ \A b \in DOMAIN no_pr_cache' : no_pr_cache'[b] = no_pr_cache[b]
          /\ branch_prs' = branch_prs
          /\ worktrees' = worktrees
          /\ branches_needing_pr_lookup' = branches_needing_pr_lookup
      ]_vars

\* the last call was a cleanup at 120 seconds that removed an entry and kept
\* a younger one, and the branch of the removed entry is in need of lookup
C28_Witness ==
    /\ wtCall.op = "cleanup_no_pr_cache"
    /\ wtCall.cached
    /\ now = NO_PR_CACHE_TTL_SECS * TicksPerSec
    /\ \E b \in DOMAIN no_pr_cache : no_pr_cache[b] > 0
    /\ \E i \in DOMAIN branches_needing_pr_lookup :
           branches_needing_pr_lookup[i] \notin DOMAIN no_pr_cache

(***************************************************************************)
(* Properties of the watch loop.                                           *)
(***************************************************************************)
\* C30: within one run of the watch loop a session is launched at most once
\* per issue identifier: the identifiers of the tasks in local storage at
\* start-up are never launched, and no identifier is launched a second time,
\* in the same poll or a later one, even if a response lists it twice.
C30_LaunchedAtMostOnce ==
    \A id \in Identifiers :
        /\ launched[id] <= 1
        /\ id \in known => launched[id] = 0

(***************************************************************************)
(* Properties of checks_status.                                            *)
(***************************************************************************)
\* the lists that hold the checks of l in another order
Reordered(l) ==
    { [i \in DOMAIN l |-> l[p[i]]] :
        p \in { q \in [DOMAIN l -> DOMAIN l] : \A i, j \in DOMAIN l : q[i] = q[j] => i = j } }

Concluded(check, names) ==
    check.conclusion # None /\ check.conclusion[1] \in names

\* the status the stated rule gives a non-empty check list
StatedChecksStatus(l) ==
    IF \E i \in DOMAIN l : Concluded(l[i], {"FAILURE", "ERROR", "TIMED_OUT"})
        THEN "FAILURE"
    ELSE IF \E i \in DOMAIN l : /\ ~Concluded(l[i], {"SUCCESS", "NEUTRAL", "SKIPPED"})
                                /\ l[i].status # Some("COMPLETED")
        THEN "PENDING"
    ELSE "SUCCESS"

\* C31: checks_status returns None when the check list is absent or empty;
\* otherwise FAILURE if any check concluded FAILURE, ERROR or TIMED_OUT;
\* otherwise PENDING if any check without a SUCCESS, NEUTRAL or SKIPPED
\* conclusion has a status other than COMPLETED; otherwise SUCCESS; and the
\* same checks in any other order give the same result.
C31_ChecksStatus ==
    outChecks # <<>> =>
        /\ (inRollup = None \/ inRollup = Some(<<>>)) => outChecks[1] = None
        /\ (inRollup # None /\ inRollup # Some(<<>>)) =>
              /\ outChecks[1] = Some(StatedChecksStatus(inRollup[1]))
              /\ \A l \in Reordered(inRollup[1]) : checks_status(Some(l)) = outChecks[1]

\* checks_status returned FAILURE for a list whose second check timed out
\* after a first check that is still running
C31_Witness ==
    /\ outChecks = <<Some("FAILURE")>>
    /\ chkSource = "view"
    /\ inRollup # None
    /\ Len(inRollup[1]) = 2
    /\ inRollup[1][1].conclusion = None
    /\ inRollup[1][1].status = Some("IN_PROGRESS")
    /\ inRollup[1][2].conclusion = Some("TIMED_OUT")

\* a context of the batch response that reports a failed check
FailedContext(ctx) ==
    IF ctx.typename = "StatusContext"
        THEN ctx.state \in { Some("FAILURE"), Some("ERROR") }
        ELSE ctx.conclusion \in { Some("FAILURE"), Some("ERROR"), Some("TIMED_OUT") }

PendingContext(ctx) ==
    ctx.typename = "StatusContext" /\ ctx.state \in { Some("PENDING"), Some("EXPECTED") }

\* C38: for a PR built from the batch response, when a StatusContext has the
\* state PENDING or EXPECTED and no check of the PR has failed, checks_status
\* returns PENDING, not SUCCESS.
C38_PendingContextIsPending ==
    ( /\ chkSource = "batch"
      /\ outChecks # <<>>
      /\ inContexts # None
      /\ \E i \in DOMAIN inContexts[1] : PendingContext(inContexts[1][i])
      /\ \A i \in DOMAIN inContexts[1] : ~FailedContext(inContexts[1][i]) )
        => outChecks[1] = Some("PENDING")

\* what determine_state answers for working directory d at the present instant
Classified(d) ==
    determine_state([working_dir |-> d, used_percentage |-> "None", timestamp |-> 0], -1).state

Rank(state) ==
    CASE state = "Thinking" -> 1
      [] state = "WaitingForUser" -> 2
      [] state = "Idle" -> 3
      [] OTHER -> 0

\* C32: a working directory with a recorded update is classified Thinking,
\* WaitingForUser or Idle; while no record_update is made for it, a later
\* classification is never an earlier stage than a former one; a step that
\* takes it back is a record_update for it and gives Thinking; and with 120
\* seconds passed since the update it is Idle.
C32_ForwardOnly ==
    /\ [](\A d \in DOMAIN last_update_times :
            /\ Rank(Classified(d)) > 0
            /\ SinceUpdate(d) >= WAITING_THRESHOLD_SECS => Classified(d) = "Idle")
    /\ [][\A d \in DOMAIN last_update_times :
            /\ d \in DOMAIN last_update_times'
            /\ last_update_times'[d] = last_update_times[d]
                   => Rank(Classified(d)') >= Rank(Classified(d))
            /\ last_update_times'[d] # last_update_times[d]
                   => /\ trCall'.op \in {"record_update", "update_from_file"}
                      /\ trCall'.dir = d
                      /\ last_update_times'[d] = now'
                      /\ Classified(d)' = "Thinking"
            /\ (trCall'.op = "record_update" /\ trCall'.dir = d)
                   => Classified(d)' = "Thinking"]_vars

\* an update was recorded, no other followed, and 120 seconds later the
\* directory is reported Idle
C32_Witness ==
    /\ trCall.op = "get_activity_for_session"
    /\ trCall.path = "event"
    /\ last_update_times[trCall.dir] = 0
    /\ SinceUpdate(trCall.dir) = WAITING_THRESHOLD_SECS
    /\ result.state = "Idle"

\* the no-PR entries that are unexpired at instant t
Unexpired(t) ==
    { b \in DOMAIN no_pr_cache :
        (IF t >= no_pr_cache[b] THEN t - no_pr_cache[b] ELSE 0) \div TicksPerSec
            < NO_PR_CACHE_TTL_SECS }

\* C33: a branch whose last set_branch_pr was not followed by a
\* clear_branch_pr is never returned by branches_needing_pr_lookup, whatever
\* time has passed and whatever was done to the no-PR cache and the worktree
\* list; a branch whose last clear_branch_pr was not followed by a
\* set_branch_pr is returned exactly if it is a worktree branch with no
\* unexpired no-PR entry.
C33_PrEntrySticky ==
    \A b \in DOMAIN prHistory :
        /\ prHistory[b] = "set" => b \notin Range(branches_needing_pr_lookup)
        /\ prHistory[b] = "cleared" =>
              (b \in Range(branches_needing_pr_lookup)
                  <=> (b \in WorktreeBranches /\ b \notin Unexpired(now)))

\* branch a got a PR entry at instant 0 and was never cleared: 120 seconds
\* later, with an expired no-PR entry written after it and its worktree listed,
\* it is still not looked up, while branch b, set and then cleared, is
C33_Witness ==
    /\ "a" \in DOMAIN prHistory /\ prHistory["a"] = "set"
    /\ "b" \in DOMAIN prHistory /\ prHistory["b"] = "cleared"
    /\ {"a", "b"} \subseteq WorktreeBranches
    /\ now = NO_PR_CACHE_TTL_SECS * TicksPerSec
    /\ "a" \in DOMAIN no_pr_cache /\ "a" \notin Unexpired(now)
    /\ branches_needing_pr_lookup = <<"b">>

\* C34: a call of branches_needing_pr_lookup leaves branch_prs, the no-PR
\* cache and the worktree list as they were, and a call that follows another
\* with no other call in between and the same no-PR entries unexpired returns
\* the same branches in the same order.
C34_LookupIsPureRead ==
    [][(wtCall'.op = "branches_needing_pr_lookup" /\ wtCall' # wtCall) =>
          /\ UNCHANGED <<branch_prs, no_pr_cache, worktrees, selected_index, error>>
          /\ (wtCall.op = "branches_needing_pr_lookup"
                 /\ wtCall.live = Unexpired(now'))
                => wtCall'.out = wtCall.out]_vars

\* a second call in a row that returns a branch while another has an
\* unexpired no-PR entry
C34_Witness ==
    /\ wtCall.op = "branches_needing_pr_lookup"
    /\ wtCall.n = 2
    /\ now > 0
    /\ wtCall.out # <<>>
    /\ Unexpired(now) # {}

\* the names of the two branches as the board's tasks meet them: the slug of
\* the title "A b", and a longer name in other case that matches it too
BranchName(b) == IF b = "a" THEN <<"a", "-", "b">> ELSE <<"A", "-", "b", "-", "1">>

\* the PR map and the worktree list as tasks_in_column_with_prs receives them
BoardPrs(prs) ==
    [k \in { BranchName(b) : b \in DOMAIN prs } |->
        [state |-> prs[CHOOSE b \in DOMAIN prs : BranchName(b) = k], is_draft |-> FALSE]]

BoardWorktrees(l) ==
    [i \in DOMAIN l |-> [branch |-> BranchName(l[i].branch), is_current |-> l[i].is_current]]

\* the tasks whose derived branch is b
TasksOfBranch(b) ==
    { t \in { x \in ColumnTasks : x.description = None /\ x.status = "Backlog" } :
        expected_branch(t) = BranchName(b) }

\* the PRs that can be found for task t on the board, one per iteration order
Found(t) ==
    { branch_pr(t, BoardPrs(branch_prs), order, BoardWorktrees(worktrees)) :
        order \in IterationOrders(BoardPrs(branch_prs)) }

\* the first listed worktree that matches task t has a PR entry
Shadowed(t) ==
    LET wts == BoardWorktrees(worktrees)
        hits == { i \in DOMAIN wts :
                    \/ wts[i].branch = expected_branch(t)
                    \/ ContainOneAnother(wts[i].branch, expected_branch(t)) }
    IN  /\ hits # {}
        /\ wts[CHOOSE i \in hits : \A j \in hits : i <= j].branch
               \in DOMAIN BoardPrs(branch_prs)

\* a set_worktrees step writes neither map, so the PR entry of a branch it
\* drops from the list is kept
SetWorktreesFrame ==
    wtCall'.op = "set_worktrees" =>
        /\ UNCHANGED <<branch_prs, no_pr_cache, lastMark>>
        /\ \A b \in wtCall'.gone \cap DOMAIN branch_prs :
              b \in DOMAIN branch_prs' /\ branch_prs'[b] = branch_prs[b]

\* C35 as stated: set_worktrees leaves branch_prs and the no-PR cache as they
\* were, and the PR entry of a branch whose worktree it dropped is the PR
\* found for every task whose derived branch is that branch.
C35_SetWorktreesKeepsPrs ==
    /\ [][SetWorktreesFrame]_vars
    /\ [](wtCall.op = "set_worktrees" =>
            \A b \in wtCall.gone \cap DOMAIN branch_prs :
                \A t \in TasksOfBranch(b) :
                    Found(t) = { Some(BoardPrs(branch_prs)[BranchName(b)]) })

\* C35, amended: set_worktrees leaves branch_prs and the no-PR cache as they
\* were, and the PR entry of a branch whose worktree it dropped is the PR
\* found for every task whose derived branch is that branch, unless the
\* first worktree still listed that matches the task has a PR entry of its
\* own, which is then the one found.
C35_SetWorktreesKeepsPrsUnlessShadowed ==
    /\ [][SetWorktreesFrame]_vars
    /\ [](wtCall.op = "set_worktrees" =>
            \A b \in wtCall.gone \cap DOMAIN branch_prs :
                \A t \in TasksOfBranch(b) :
                    ~Shadowed(t) =>
                        Found(t) = { Some(BoardPrs(branch_prs)[BranchName(b)]) })

\* set_worktrees dropped the worktree of branch a, whose PR entry is there
\* still, and no worktree is left that matches the task
C35_Witness ==
    /\ wtCall.op = "set_worktrees"
    /\ "a" \in wtCall.gone
    /\ "a" \in DOMAIN branch_prs
    /\ worktrees = <<>>
    /\ TasksOfBranch("a") # {}

\* C36: a session whose name was dropped by one set_sessions call and is
\* listed again by a later one has, after that call, the values of the
\* incoming entry, which a fresh poll gives as Unknown and None, whatever it
\* had when its name was dropped.
C36_NoCarryAcrossAbsence ==
    ssCall.op = "set_sessions" =>
        \A i \in DOMAIN sessions :
            (sessions[i].name \in DOMAIN departed /\ departed[sessions[i].name].back) =>
                /\ sessions[i].claude_activity = ssCall.new_sessions[i].claude_activity
                /\ sessions[i].context_percentage = ssCall.new_sessions[i].context_percentage
                /\ sessions[i].claude_activity = "Unknown"
                /\ sessions[i].context_percentage = "None"

\* a session that was Thinking at 10 percent when its name was dropped is
\* listed again, next to one whose activity was carried over
C36_Witness ==
    /\ ssCall.op = "set_sessions"
    /\ \E i \in DOMAIN sessions :
          /\ sessions[i].name \in DOMAIN departed
          /\ departed[sessions[i].name].back
          /\ departed[sessions[i].name].claude_activity = "Thinking"
          /\ sessions[i].claude_activity = "Unknown"
    /\ \E i \in DOMAIN sessions : sessions[i].claude_activity = "Idle"

\* what the call for one visible status returns, on the inputs and with the
\* iteration order of the call that was made
ColumnOf(status) ==
    tasks_in_column_with_prs(status, inBranchPrs, colCall.order, inWorktrees, inLinearStatuses)

\* the status task t resolves to on these inputs
ResolvedStatus(t) ==
    effective_status_with_pr(t, branch_pr(t, inBranchPrs, colCall.order, inWorktrees),
                             has_worktree(t, inWorktrees), linear_status(t, inLinearStatuses))

\* C37: with an empty search filter and the PR map, worktree list and issue
\* statuses held fixed, the four calls for Backlog, Inprogress, Inreview and
\* Done return every task exactly once between them; a task that resolves to
\* Todo is returned for Backlog and one that resolves to Cancelled for Done.
C37_ColumnsPartitionTasks ==
    (outTasks # None /\ search_filter = <<>>) =>
        /\ ColumnOf(colCall.status) = outTasks[1]
        /\ \A t \in Range(tasks) :
              /\ Cardinality({ k \in DOMAIN VISIBLE : t \in Range(ColumnOf(VISIBLE[k])) }) = 1
              /\ ResolvedStatus(t) = "Todo" => t \in Range(ColumnOf("Backlog"))
              /\ ResolvedStatus(t) = "Cancelled" => t \in Range(ColumnOf("Done"))
        /\ Len(ColumnOf("Backlog")) + Len(ColumnOf("Inprogress"))
               + Len(ColumnOf("Inreview")) + Len(ColumnOf("Done")) = Len(tasks)

\* the call for Backlog returned a task that resolves to Todo
C37_Witness ==
    /\ outTasks # None
    /\ search_filter = <<>>
    /\ colCall.status = "Backlog"
    /\ \E i \in DOMAIN outTasks[1] : ResolvedStatus(outTasks[1][i]) = "Todo"

\* C39: a fetch that fails changes neither the handled set nor what was
\* launched and leaves nothing to handle, and the next step of the loop is
\* another poll; an import that fails does not add its issue to the handled
\* set, so an issue whose import has only failed is not in the handled set
\* and is among the issues to handle after the next successful fetch that
\* lists it; and the loop is never stuck while polls remain.
C39_FailuresAreRetried ==
    /\ [](watchLog.fetch = "err" =>
            /\ new_issues = <<>>
            /\ polls < MaxPolls => ENABLED PollTracked)
    /\ [](watchLog.failed \cap gassed = {})
    /\ [](polls < MaxPolls => ENABLED NextWatchTracked)
    /\ [][(polls' = polls + 1 /\ watchLog'.fetch = "err")
              => UNCHANGED <<gassed, launched>>]_vars
    /\ [][(polls' = polls + 1 /\ watchLog'.fetch = "ok")
              => \A id \in watchLog.failed \cap watchLog'.listed :
                    id \in Range(new_issues')]_vars
    /\ [][(new_issues # <<>> /\ new_issues' = Tail(new_issues)
              /\ launched' = launched) => gassed' = gassed]_vars

\* the import of ENG-1 failed, and the last fetch allowed lists ENG-1 again:
\* it is to be handled again
C39_Witness ==
    /\ watchLog.fetch = "ok"
    /\ "ENG-1" \in watchLog.failed
    /\ "ENG-1" \in Range(new_issues)
    /\ polls = MaxPolls
    /\ launched["ENG-1"] = 0

\* C40: what session_matches_working_dir returns is whether working_dir
\* contains session_name ignoring case, the last-segment rule adding no match
\* of its own; an empty session name matches every working directory.
C40_SegmentRuleIsRedundant ==
    outMatch # None =>
        /\ outMatch[1] = ContainsIgnoringCase(inDir, inSession)
        /\ inSession = <<>> => outMatch[1] = TRUE

\* the empty session name matched a directory that ends in a segment
C40_Witness ==
    /\ inSession = <<>>
    /\ Len(inDir) >= 2
    /\ inDir[Len(inDir)] # "/"
    /\ outMatch = Some(TRUE)

====
